---- MODULE Spec2Model ----
(***************************************************************************)
(* Worksheet reconciliation scripts: sync_xlsx.py (sync_inside_workbook,   *)
(* delete_missing_agents, sync_source_to_target), sync_master.py (main)    *)
(* and sync_bd_source_to_target_terminals.py (sync_bd_to_target).          *)
(*                                                                         *)
(* A worksheet is the sequence of its data rows: row number r of the       *)
(* sheet (r >= 2, row 1 is the header) is element r - 1.  A row is a       *)
(* function from column names to cell values.  Column names and text are   *)
(* written in ASCII: a Cyrillic header is named by its transliteration and *)
(* a Cyrillic letter of a cell text by a token "ru_x".                     *)
(***************************************************************************)
EXTENDS Integers, Sequences, FiniteSets, TLC

VARIABLES
    pc,                     \* position in the function being run
    \* ---- sync_xlsx.sync_inside_workbook / delete_missing_agents
    ws_bd, ws_svod, svod0,  \* the two sheets; svod0 = SVOD as loaded
    bd_by_agent, terminals_by_agent, agents_in_bd,
    to_delete, deleted, deleted_rows,
    last_data_row, existing_row_by_agent, append_row, inserted, updated,
    \* ---- sync_master.main
    src_ws, tgt_ws, tgt_ws0, \* the two sheets; tgt_ws0 = target as downloaded
    run,                     \* how many times main has been started
    source_map, existing_agent_rows, updates, clears, insert_r, m_inserted,
    insert_log,              \* per insertion: the key, the row, the row before
    \* ---- sync_xlsx.sync_source_to_target
    ws_src, ws_tgt, ws_tgt0, \* the two sheets; ws_tgt0 = target as loaded
    src_data, tgt_row_by_key, tgt_last, x_append_row, x_updated, x_inserted,
    \* ---- sync_bd_source_to_target_terminals.sync_bd_to_target
    t_ws_bd, t_ws_tgt, t_ws_tgt0, \* the two sheets; t_ws_tgt0 = target as loaded
    t_bd_map,                     \* the header of BD (set of column names)
    row_by_agent, t_tgt_last, t_updated, t_inserted,
    \* ---- sync_xlsx.sync_inside_workbook, the header checks at its entry
    hdr_bd, hdr_svod, hdr_svod0,  \* row 1 of BD and SVOD; hdr_svod0 = as loaded
    raised,                       \* the RuntimeError raised, "" when none
    \* ---- sync_xlsx.main and disk_upload
    run_inside, run_to_target,    \* RUN_INSIDE_SOURCE == "1", RUN_SYNC_TO_TARGET == "1"
    target_path_set,              \* DISK_TARGET_PATH is not empty
    trace,                        \* downloads and reconciliations completed so far
    uploaded,                     \* the files stored on the disk so far
    fatal,                        \* the error main ended with, "" when none
    up_path, up_retries,          \* the arguments of the running disk_upload
    up_caller,                    \* where disk_upload was called from
    up_attempt,                   \* the loop variable attempt
    up_statuses,                  \* the status of every PUT made by this call
    up_waits,                     \* the seconds of every time.sleep of this call
    up_outcome,                   \* "", "returned" or the error raised
    \* ---- a call of one of the pure helpers
    fn, arg, res,                 \* the function called, its argument, its result
    \* ---- sync_mts_target_to_source.py: sync_target_to_source
    b_ws_src, b_ws_tgt,           \* the SOURCE and the TARGET sheet
    b_ws_src0,                    \* the SOURCE sheet as loaded
    b_data,                       \* the local data: key -> 0/1
    b_src_last,                   \* the local src_last
    b_updated,                    \* the local updated
    \* ---- sync_bools_source_to_target.py: sync
    s_ws_src, s_ws_tgt,           \* the SOURCE and the TARGET sheet
    s_ws_tgt0,                    \* the TARGET sheet as loaded
    s_src_data,                   \* the local src_data: key -> payload
    s_tgt_row_by_key,             \* the local tgt_row_by_key
    s_tgt_last,                   \* the local tgt_last
    s_append_row,                 \* the local append_row
    s_updated, s_inserted         \* the locals updated and inserted

varsHeaders == <<hdr_bd, hdr_svod, hdr_svod0, raised>>

varsMain == <<run_inside, run_to_target, target_path_set, trace, uploaded, fatal,
              up_path, up_retries, up_caller, up_attempt, up_statuses, up_outcome,
              up_waits>>

varsPure == <<fn, arg, res>>

varsBack == <<b_ws_src, b_ws_tgt, b_ws_src0, b_data, b_src_last, b_updated>>

varsBools == <<s_ws_src, s_ws_tgt, s_ws_tgt0, s_src_data, s_tgt_row_by_key,
               s_tgt_last, s_append_row, s_updated, s_inserted>>

varsExport == <<ws_src, ws_tgt, ws_tgt0, src_data, tgt_row_by_key, tgt_last,
                x_append_row, x_updated, x_inserted>>

varsTerminals == <<t_ws_bd, t_ws_tgt, t_ws_tgt0, t_bd_map, row_by_agent,
                   t_tgt_last, t_updated, t_inserted>>

varsMaster == <<src_ws, tgt_ws, tgt_ws0, run, source_map, existing_agent_rows,
                updates, clears, insert_r, m_inserted, insert_log>>

varsInside == <<ws_bd, ws_svod, svod0, bd_by_agent, terminals_by_agent,
                agents_in_bd, to_delete, deleted, deleted_rows,
                last_data_row, existing_row_by_agent, append_row, inserted,
                updated>>

vars == <<pc, varsInside, varsMaster, varsExport, varsTerminals, varsHeaders,
         varsMain, varsPure, varsBack, varsBools>>

-----------------------------------------------------------------------------
(* Cell values: None, text (a sequence of characters), int, bool.          *)

None == [t |-> "none", s |-> <<>>, n |-> 0]
Str(s) == [t |-> "str", s |-> s, n |-> 0]
Num(n) == [t |-> "int", s |-> <<>>, n |-> n]
Bool(b) == [t |-> "bool", s |-> <<>>, n |-> IF b THEN 1 ELSE 0]

EN_DASH == "EN DASH"       \* the character U+2013

Digits == <<"0", "1", "2", "3", "4", "5", "6", "7", "8", "9">>

IsDigit(ch) == \E i \in 1..10 : Digits[i] = ch

IsSpace(ch) == ch \in {" ", "\t", "\n"}

DigitVal(ch) == (CHOOSE i \in 1..10 : Digits[i] = ch) - 1

RECURSIVE IntToStr(_)
IntToStr(n) ==
    IF n < 10 THEN <<Digits[n + 1]>>
    ELSE IntToStr(n \div 10) \o <<Digits[(n % 10) + 1]>>

RECURSIVE StrToInt(_)
StrToInt(s) ==
    IF s = <<>> THEN 0
    ELSE 10 * StrToInt(SubSeq(s, 1, Len(s) - 1)) + DigitVal(s[Len(s)])

\* str(v)
PyStr(v) ==
    CASE v.t = "none" -> <<"N", "o", "n", "e">>
      [] v.t = "str"  -> v.s
      [] v.t = "int"  -> IntToStr(v.n)
      [] v.t = "bool" -> IF v.n = 1 THEN <<"T", "r", "u", "e">>
                         ELSE <<"F", "a", "l", "s", "e">>

\* s.strip()
RECURSIVE LStrip(_)
LStrip(s) ==
    IF s # <<>> /\ IsSpace(s[1]) THEN LStrip(Tail(s)) ELSE s

RECURSIVE RStrip(_)
RStrip(s) ==
    IF s # <<>> /\ IsSpace(s[Len(s)]) THEN RStrip(SubSeq(s, 1, Len(s) - 1))
    ELSE s

Strip(s) == RStrip(LStrip(s))

\* s.lower() on the letters used in cell texts
LowerCh(ch) ==
    CASE ch = "T" -> "t" [] ch = "F" -> "f" [] ch = "Y" -> "y"
      [] ch = "N" -> "n" [] ch = "A" -> "a" [] ch = "X" -> "x"
      [] ch = "RU_D" -> "ru_d" [] ch = "RU_A" -> "ru_a"
      [] ch = "RU_E" -> "ru_e" [] ch = "B" -> "b"
      [] ch = "E" -> "e" [] ch = "S" -> "s" [] ch = "O" -> "o"
      [] OTHER -> ch

Lower(s) == [i \in 1..Len(s) |-> LowerCh(s[i])]

-----------------------------------------------------------------------------
(* Worksheet access.                                                       *)

max_row(ws) == Len(ws) + 1

Cell(ws, r, c) == IF r >= 2 /\ r - 1 <= Len(ws) THEN ws[r - 1][c] ELSE None

EmptyRow(cols) == [c \in cols |-> None]

RECURSIVE PadTo(_, _, _)
PadTo(ws, r, cols) ==
    IF r - 1 <= Len(ws) THEN ws ELSE PadTo(Append(ws, EmptyRow(cols)), r, cols)

\* ws.cell(row=r, column=c).value = v   (a write below max_row extends the sheet)
SetCell(ws, r, c, v, cols) ==
    LET p == PadTo(ws, r, cols) IN [p EXCEPT ![r - 1][c] = v]

\* a deletion that shifts the base columns up and leaves the flags in place
delete_rows_keep_flags(ws, r) ==
    IF r >= 2 /\ r - 1 <= Len(ws)
    THEN [i \in 1..(Len(ws) - 1) |->
             [c \in DOMAIN ws[i] |->
                 IF i >= r - 1 /\ c \notin {"Dobavlen sertifikat", "Dobavlen sertifikat (MTS)",
                                          "Bilety prodayutsya"}
                 THEN ws[i + 1][c] ELSE ws[i][c]]]
    ELSE ws

\* ws.delete_rows(r, 1)
delete_rows(ws, r) ==
    IF r >= 2 /\ r - 1 <= Len(ws)
    THEN SubSeq(ws, 1, r - 2) \o SubSeq(ws, r, Len(ws))
    ELSE ws

is_empty_cell(v) == v.t = "none" \/ (v.t = "str" /\ Strip(v.s) = <<>>)

get_cell_str(ws, r, c) ==
    LET v == Cell(ws, r, c) IN IF v.t = "none" THEN <<>> ELSE Strip(PyStr(v))

RECURSIVE LastNonEmpty(_, _, _)
LastNonEmpty(ws, key_col, r) ==
    IF r < 2 THEN 1
    ELSE IF ~is_empty_cell(Cell(ws, r, key_col)) THEN r
    ELSE LastNonEmpty(ws, key_col, r - 1)

get_last_data_row(ws, key_col) == LastNonEmpty(ws, key_col, max_row(ws))

-----------------------------------------------------------------------------
(* Python dicts keep insertion order: a dict is a sequence of <<key, value>>. *)

DictKeys(d) == {d[i][1] : i \in 1..Len(d)}

DictHas(d, k) == k \in DictKeys(d)

DictGet(d, k) == d[CHOOSE i \in 1..Len(d) : d[i][1] = k][2]

DictSet(d, k, v) ==
    IF DictHas(d, k)
    THEN [i \in 1..Len(d) |-> IF d[i][1] = k THEN <<k, v>> ELSE d[i]]
    ELSE Append(d, <<k, v>>)

DictDel(d, k) == SelectSeq(d, LAMBDA e : e[1] # k)

-----------------------------------------------------------------------------
(* sync_xlsx.py: configuration.                                            *)

COL_UL == "UL"
COL_MTS == "MTS ID"
COL_TERMINAL == "Terminal ID (Stoloto)"
COL_AGENT == "Agent ID (Stoloto)"
COL_GUID == "GUID"
COL_SSPS == "Otvetstvennyi SSPS"
COL_CERT == "Dobavlen sertifikat"
COL_CERT_MTS == "Dobavlen sertifikat (MTS)"
COL_TICKETS == "Bilety prodayutsya"

SVOD_BOOL_COLS == <<COL_CERT, COL_CERT_MTS, COL_TICKETS>>

SVOD_REQUIRED_BASE ==
    <<COL_UL, COL_MTS, COL_TERMINAL, COL_AGENT, COL_GUID, COL_SSPS>>

BD_REQUIRED ==
    <<COL_UL, COL_MTS, COL_TERMINAL, COL_AGENT, COL_GUID, COL_SSPS>>

Range(seq) == {seq[i] : i \in 1..Len(seq)}

BdCols == Range(BD_REQUIRED)
SvodCols == Range(SVOD_REQUIRED_BASE) \cup Range(SVOD_BOOL_COLS)

-----------------------------------------------------------------------------
(* sync_xlsx.py: terminal ranges and booleans.                             *)

\* every text parses, to 0 when it holds no digit
parse_terminal_id_zero(x) == Num(StrToInt(SelectSeq(PyStr(x), IsDigit)))

parse_terminal_id(x) ==
    LET s == SelectSeq(PyStr(x), IsDigit)
    IN  IF s = <<>> THEN None ELSE Num(StrToInt(s))

RECURSIVE SortedSeq(_)
SortedSeq(S) ==
    IF S = {} THEN <<>>
    ELSE LET m == CHOOSE x \in S : \A y \in S : x <= y
         IN  <<m>> \o SortedSeq(S \ {m})

\* the loop of compress_ranges over nums[1:], with its locals start, prev, out
RECURSIVE CompressLoop(_, _, _, _)
CompressLoop(rest, start, prev, out) ==
    IF rest = <<>> THEN Append(out, <<start, prev>>)
    ELSE IF rest[1] = prev + 1
         THEN CompressLoop(Tail(rest), start, rest[1], out)
         ELSE CompressLoop(Tail(rest), rest[1], rest[1],
                           Append(out, <<start, prev>>))

\* the loop run on the list as given, neither sorted nor deduplicated
compress_ranges_as_given(nums) ==
    IF nums = <<>> THEN <<>>
    ELSE CompressLoop(Tail(nums), nums[1], nums[1], <<>>)

compress_ranges(nums) ==
    IF nums = <<>> THEN <<>>
    ELSE LET sorted == SortedSeq(Range(nums))
         IN  CompressLoop(Tail(sorted), sorted[1], sorted[1], <<>>)

\* a range rendered with a hyphen-minus
FormatPartHyphen(rg) ==
    IF rg[1] = rg[2] THEN <<"(">> \o IntToStr(rg[1]) \o <<")">>
    ELSE <<"(">> \o IntToStr(rg[1]) \o <<"-">> \o IntToStr(rg[2]) \o <<")">>

FormatPart(rg) ==
    IF rg[1] = rg[2] THEN <<"(">> \o IntToStr(rg[1]) \o <<")">>
    ELSE <<"(">> \o IntToStr(rg[1]) \o <<EN_DASH>> \o IntToStr(rg[2]) \o <<")">>

RECURSIVE JoinSpace(_)
JoinSpace(parts) ==
    IF parts = <<>> THEN <<>>
    ELSE IF Len(parts) = 1 THEN parts[1]
    ELSE parts[1] \o <<" ">> \o JoinSpace(Tail(parts))

format_ranges(ranges) ==
    JoinSpace([i \in 1..Len(ranges) |-> FormatPart(ranges[i])])

\* the recognised texts; ru_* stand for the Cyrillic spellings
TRUE_TEXTS == {<<"t", "r", "u", "e">>, <<"ru_i", "ru_s", "ru_t", "ru_i", "ru_n", "ru_a">>,
               <<"ru_d", "ru_a">>, <<"y", "e", "s">>, <<"y">>, <<"1">>}
FALSE_TEXTS == {<<"f", "a", "l", "s", "e">>, <<"ru_l", "ru_o", "ru_zh", "ru_soft">>,
                <<"ru_n", "ru_e", "ru_t">>, <<"n", "o">>, <<"n">>, <<"0">>}

\* what is not recognised as true is taken as false
normalize_bool_default0(v) ==
    IF v.t = "bool" THEN Num(v.n)
    ELSE IF v.t = "int" /\ v.n = 1 THEN Num(1)
    ELSE IF v.t # "none" /\ Lower(Strip(PyStr(v))) \in TRUE_TEXTS THEN Num(1)
    ELSE Num(0)

\* normalize_bool_to_01: Num(1), Num(0), or None for "absent"
normalize_bool_to_01(v) ==
    IF v.t = "none" THEN None
    ELSE IF v.t = "bool" THEN Num(v.n)
    ELSE IF v.t = "int" /\ v.n = 1 THEN Num(1)
    ELSE IF v.t = "int" /\ v.n = 0 THEN Num(0)
    ELSE LET s == Lower(Strip(PyStr(v)))
         IN  IF s = <<>> THEN None
             ELSE IF s \in TRUE_TEXTS THEN Num(1)
             ELSE IF s \in FALSE_TEXTS THEN Num(0)
             ELSE None

-----------------------------------------------------------------------------
(* sync_xlsx.py: sync_inside_workbook, lines 420-444: read BD.             *)

EmptyPayload == [c \in BdCols |-> <<>>]

MergePayloadLastWins(old, val) == IF val # <<>> THEN val ELSE old

\* lines 439-440: a column keeps the first non-empty value seen for the agent
MergePayload(old, val) == IF old = <<>> /\ val # <<>> THEN val ELSE old

\* one iteration of the loop over the rows of BD
ScanBdRow(st, bd, r) ==
    LET agent == get_cell_str(bd, r, COL_AGENT) IN
    IF agent = <<>> THEN st
    ELSE
      LET term_raw == Cell(bd, r, COL_TERMINAL)
          term_num == IF term_raw.t # "none" THEN parse_terminal_id(term_raw)
                      ELSE None
          nums     == IF DictHas(st.terminals_by_agent, agent)
                      THEN DictGet(st.terminals_by_agent, agent) ELSE <<>>
          old      == IF DictHas(st.bd_by_agent, agent)
                      THEN DictGet(st.bd_by_agent, agent) ELSE EmptyPayload
          payload  == [c \in BdCols |->
                         MergePayload(old[c], get_cell_str(bd, r, c))]
      IN  [bd_by_agent |-> DictSet(st.bd_by_agent, agent, payload),
           terminals_by_agent |->
               IF term_num.t # "none"
               THEN DictSet(st.terminals_by_agent, agent, Append(nums, term_num.n))
               ELSE st.terminals_by_agent,
           agents_in_bd |-> st.agents_in_bd \cup {agent}]

RECURSIVE ScanBdFrom(_, _, _)
ScanBdFrom(st, bd, r) ==
    IF r > max_row(bd) THEN st ELSE ScanBdFrom(ScanBdRow(st, bd, r), bd, r + 1)

\* lines 442-444: the terminal column becomes the compressed ranges
ApplyTerminals(bd_map, terms) ==
    [i \in 1..Len(bd_map) |->
        LET agent == bd_map[i][1] IN
        IF DictHas(terms, agent)
        THEN <<agent, [bd_map[i][2] EXCEPT ![COL_TERMINAL] =
                          format_ranges(compress_ranges(DictGet(terms, agent)))]>>
        ELSE bd_map[i]]

-----------------------------------------------------------------------------
(* sync_xlsx.py: delete_missing_agents.                                    *)

\* lines 375-379: the rows 2..last_data whose key is not in BD, ascending
RECURSIVE ToDeleteFrom(_, _, _, _)
ToDeleteFrom(ws, agents, r, last_data) ==
    IF r > last_data THEN <<>>
    ELSE LET agent == get_cell_str(ws, r, COL_AGENT)
             rest  == ToDeleteFrom(ws, agents, r + 1, last_data)
         IN  IF agent # <<>> /\ agent \notin agents THEN <<r>> \o rest ELSE rest

ToDelete(ws, agents) ==
    LET last_data == get_last_data_row(ws, COL_AGENT)
    IN  IF last_data < 2 THEN <<>> ELSE ToDeleteFrom(ws, agents, 2, last_data)

NextDeleteRowAscending(td) == td[1]

\* line 382: for r in reversed(to_delete)
NextDeleteRow(td) == td[Len(td)]

-----------------------------------------------------------------------------
(* sync_xlsx.py: sync_inside_workbook, lines 450-508.                      *)

\* lines 463-468
RECURSIVE ExistingRows(_, _, _, _, _)
ExistingRows(d, ws, key_col, r, last) ==
    IF r > last THEN d
    ELSE LET agent == get_cell_str(ws, r, key_col)
         IN  ExistingRows(IF agent # <<>> THEN DictSet(d, agent, r) ELSE d,
                          ws, key_col, r + 1, last)

\* writes payload[col] into row rr for every col of cols (a sequence)
RECURSIVE WriteCols(_, _, _, _, _)
WriteCols(ws, rr, cols, payload, allcols) ==
    IF cols = <<>> THEN ws
    ELSE WriteCols(SetCell(ws, rr, cols[1], Str(payload[cols[1]]), allcols),
                   rr, Tail(cols), payload, allcols)

RECURSIVE WriteConst(_, _, _, _, _)
WriteConst(ws, rr, cols, v, allcols) ==
    IF cols = <<>> THEN ws
    ELSE WriteConst(SetCell(ws, rr, cols[1], v, allcols), rr, Tail(cols), v, allcols)

InsertedBoolInitStale(ws, rr) == ws

\* lines 491-493: the three boolean columns of a new row are set to 0
InsertedBoolInit(ws, rr) == WriteConst(ws, rr, SVOD_BOOL_COLS, Num(0), SvodCols)

\* one iteration of the loop of lines 475-495
UpsertOne(st, agent, payload, existing) ==
    IF DictHas(existing, agent)
    THEN [st EXCEPT !.ws = WriteCols(st.ws, DictGet(existing, agent),
                                     SVOD_REQUIRED_BASE, payload, SvodCols),
                    !.updated = st.updated + 1]
    ELSE [st EXCEPT !.ws = InsertedBoolInit(
                               WriteCols(st.ws, st.append_row, SVOD_REQUIRED_BASE,
                                         payload, SvodCols),
                               st.append_row),
                    !.append_row = st.append_row + 1,
                    !.inserted = st.inserted + 1]

RECURSIVE UpsertFrom(_, _, _, _)
UpsertFrom(st, bd_map, i, existing) ==
    IF i > Len(bd_map) THEN st
    ELSE UpsertFrom(UpsertOne(st, bd_map[i][1], bd_map[i][2], existing),
                    bd_map, i + 1, existing)

\* lines 497-508: 0/1 normalisation of the boolean columns over rows 2..last
NormalizeCell(v) ==
    IF is_empty_cell(v) THEN v
    ELSE IF normalize_bool_to_01(v).t = "none" THEN v
    ELSE normalize_bool_to_01(v)

NormalizeBools(ws, last) ==
    [i \in 1..Len(ws) |->
        IF i + 1 <= last
        THEN [c \in DOMAIN ws[i] |->
                 IF c \in Range(SVOD_BOOL_COLS) THEN NormalizeCell(ws[i][c])
                 ELSE ws[i][c]]
        ELSE ws[i]]

-----------------------------------------------------------------------------
(* Inputs of sync_inside_workbook: the BD and SVOD sheets as loaded.       *)

MaxBdRows == 2
MaxSvodRows == 3

SeqsUpTo(S, n) == UNION {[1..k -> S] : k \in 0..n}

BdRow(agent, ul, term, mts) ==
    [c \in BdCols |->
        CASE c = COL_AGENT -> agent
          [] c = COL_UL -> ul
          [] c = COL_TERMINAL -> term
          [] c = COL_MTS -> mts
          [] OTHER -> None]

BdRows ==
    { BdRow(Str(<<"a">>), None, Num(1), Num(7)),
      BdRow(Str(<<" ", "a">>), Str(<<"x", " ">>), Num(2), Str(<<"8">>)),
      BdRow(Num(5), Str(<<"y">>), Str(<<"t">>), None),
      BdRow(Str(<<" ">>), Str(<<"x">>), Num(3), Num(7)) }

SvodRow(agent, ul, cert, cert_mts, tickets) ==
    [c \in SvodCols |->
        CASE c = COL_AGENT -> agent
          [] c = COL_UL -> ul
          [] c = COL_CERT -> cert
          [] c = COL_CERT_MTS -> cert_mts
          [] c = COL_TICKETS -> tickets
          [] OTHER -> None]

SvodRows ==
    { SvodRow(Str(<<"a">>), Str(<<"o">>), Num(1), Str(<<" ", "RU_D", "ru_a">>), None),
      SvodRow(Str(<<"c">>), Str(<<"z">>), Num(0), Num(1), Str(<<"x">>)),
      SvodRow(None, None, Num(1), None, Bool(TRUE)),
      SvodRow(Str(<<"5", " ">>), None, Str(<<"x">>), Num(0), Num(1)) }

\* the variables of the functions that are not running
IdleInside ==
    /\ ws_bd = <<>> /\ ws_svod = <<>> /\ svod0 = <<>>
    /\ bd_by_agent = <<>> /\ terminals_by_agent = <<>> /\ agents_in_bd = {}
    /\ to_delete = <<>> /\ deleted = 0 /\ deleted_rows = <<>>
    /\ last_data_row = 1 /\ existing_row_by_agent = <<>> /\ append_row = 2
    /\ inserted = 0 /\ updated = 0

IdleMaster ==
    /\ src_ws = <<>> /\ tgt_ws = <<>> /\ tgt_ws0 = <<>> /\ run = 0
    /\ source_map = <<>> /\ existing_agent_rows = <<>>
    /\ updates = <<>> /\ clears = <<>> /\ insert_r = 2 /\ m_inserted = 0
    /\ insert_log = <<>>

IdleExport ==
    /\ ws_src = <<>> /\ ws_tgt = <<>> /\ ws_tgt0 = <<>>
    /\ src_data = <<>> /\ tgt_row_by_key = <<>> /\ tgt_last = 1
    /\ x_append_row = 2 /\ x_updated = 0 /\ x_inserted = 0

IdleTerminals ==
    /\ t_ws_bd = <<>> /\ t_ws_tgt = <<>> /\ t_ws_tgt0 = <<>> /\ t_bd_map = {}
    /\ row_by_agent = <<>> /\ t_tgt_last = 1 /\ t_updated = 0 /\ t_inserted = 0

IdleHeaders ==
    /\ hdr_bd = <<>> /\ hdr_svod = <<>> /\ hdr_svod0 = <<>> /\ raised = ""

IdleMain ==
    /\ run_inside = FALSE /\ run_to_target = FALSE /\ target_path_set = FALSE
    /\ trace = <<>> /\ uploaded = <<>> /\ fatal = ""
    /\ up_path = "" /\ up_retries = 0 /\ up_caller = "" /\ up_attempt = 0
    /\ up_statuses = <<>> /\ up_outcome = "" /\ up_waits = <<>>

IdlePure == fn = "" /\ arg = <<>> /\ res = <<>>

IdleBack ==
    /\ b_ws_src = <<>> /\ b_ws_tgt = <<>> /\ b_ws_src0 = <<>>
    /\ b_data = <<>> /\ b_src_last = 1 /\ b_updated = 0

IdleBools ==
    /\ s_ws_src = <<>> /\ s_ws_tgt = <<>> /\ s_ws_tgt0 = <<>>
    /\ s_src_data = <<>> /\ s_tgt_row_by_key = <<>> /\ s_tgt_last = 1
    /\ s_append_row = 2 /\ s_updated = 0 /\ s_inserted = 0

FrameBack ==
    UNCHANGED <<varsInside, varsMaster, varsExport, varsTerminals, varsHeaders,
                varsMain, varsPure, varsBools>>

FrameBools ==
    UNCHANGED <<varsInside, varsMaster, varsExport, varsTerminals, varsHeaders,
                varsMain, varsPure, varsBack>>

FrameMain ==
    UNCHANGED <<varsInside, varsMaster, varsExport, varsTerminals, varsHeaders,
                varsPure,
                varsBack, varsBools>>

FramePure ==
    UNCHANGED <<varsInside, varsMaster, varsExport, varsTerminals, varsHeaders,
                varsMain,
                varsBack, varsBools>>

FrameInside ==
    UNCHANGED <<varsMaster, varsExport, varsTerminals, varsHeaders, varsMain, varsPure,
                varsBack, varsBools>>

FrameMaster ==
    UNCHANGED <<varsInside, varsExport, varsTerminals, varsHeaders, varsMain, varsPure,
                varsBack, varsBools>>

FrameExport ==
    UNCHANGED <<varsInside, varsMaster, varsTerminals, varsHeaders, varsMain, varsPure,
                varsBack, varsBools>>

FrameTerminals ==
    UNCHANGED <<varsInside, varsMaster, varsExport, varsHeaders, varsMain, varsPure,
                varsBack, varsBools>>

FrameHeaders ==
    UNCHANGED <<varsInside, varsMaster, varsExport, varsTerminals, varsMain, varsPure,
                varsBack, varsBools>>

InitInside ==
    /\ pc = "scan_bd"
    /\ IdleBack
    /\ IdleBools
    /\ IdleMaster
    /\ IdleExport
    /\ IdleTerminals
    /\ IdleHeaders
    /\ IdleMain
    /\ IdlePure
    /\ ws_bd \in SeqsUpTo(BdRows, MaxBdRows)
    /\ ws_svod \in SeqsUpTo(SvodRows, MaxSvodRows)
    /\ svod0 = ws_svod
    /\ bd_by_agent = <<>>
    /\ terminals_by_agent = <<>>
    /\ agents_in_bd = {}
    /\ to_delete = <<>>
    /\ deleted = 0
    /\ deleted_rows = <<>>
    /\ last_data_row = 1
    /\ existing_row_by_agent = <<>>
    /\ append_row = 2
    /\ inserted = 0
    /\ updated = 0

-----------------------------------------------------------------------------
(* sync_inside_workbook, step by step.                                     *)

\* lines 420-444
ScanBd ==
    /\ FrameInside
    /\ pc = "scan_bd"
    /\ LET st == ScanBdFrom([bd_by_agent |-> <<>>, terminals_by_agent |-> <<>>,
                             agents_in_bd |-> {}], ws_bd, 2)
       IN  /\ bd_by_agent' = ApplyTerminals(st.bd_by_agent, st.terminals_by_agent)
           /\ terminals_by_agent' = st.terminals_by_agent
           /\ agents_in_bd' = st.agents_in_bd
    /\ pc' = "delete_scan"
    /\ UNCHANGED <<ws_bd, ws_svod, svod0, to_delete, deleted, deleted_rows,
                   last_data_row, existing_row_by_agent, append_row, inserted,
                   updated>>

\* delete_missing_agents, lines 370-381
DeleteScan ==
    /\ FrameInside
    /\ pc = "delete_scan"
    /\ to_delete' = ToDelete(ws_svod, agents_in_bd)
    /\ deleted' = 0
    /\ pc' = "deleting"
    /\ UNCHANGED <<ws_bd, ws_svod, svod0, bd_by_agent, terminals_by_agent,
                   agents_in_bd, deleted_rows, last_data_row,
                   existing_row_by_agent, append_row, inserted, updated>>

\* delete_missing_agents, lines 382-384: one iteration
DeleteRow ==
    /\ FrameInside
    /\ pc = "deleting"
    /\ to_delete # <<>>
    /\ LET r == NextDeleteRow(to_delete)
       IN  /\ ws_svod' = delete_rows(ws_svod, r)
           /\ to_delete' = SelectSeq(to_delete, LAMBDA x : x # r)
           /\ deleted_rows' = Append(deleted_rows, r)
    /\ deleted' = deleted + 1
    /\ UNCHANGED <<pc, ws_bd, svod0, bd_by_agent, terminals_by_agent,
                   agents_in_bd, last_data_row, existing_row_by_agent,
                   append_row, inserted, updated>>

\* delete_missing_agents returns; lines 450-473
IndexSvod ==
    /\ FrameInside
    /\ pc = "deleting"
    /\ to_delete = <<>>
    /\ LET last == get_last_data_row(ws_svod, COL_AGENT)
       IN  /\ last_data_row' = last
           /\ existing_row_by_agent' =
                  IF last >= 2 THEN ExistingRows(<<>>, ws_svod, COL_AGENT, 2, last)
                  ELSE <<>>
           /\ append_row' = IF last >= 2 THEN last + 1 ELSE 2
    /\ inserted' = 0
    /\ updated' = 0
    /\ pc' = "upsert"
    /\ UNCHANGED <<ws_bd, ws_svod, svod0, bd_by_agent, terminals_by_agent,
                   agents_in_bd, to_delete, deleted, deleted_rows>>

\* lines 475-495
Upsert ==
    /\ FrameInside
    /\ pc = "upsert"
    /\ LET st == UpsertFrom([ws |-> ws_svod, append_row |-> append_row,
                             inserted |-> 0, updated |-> 0],
                            bd_by_agent, 1, existing_row_by_agent)
       IN  /\ ws_svod' = st.ws
           /\ append_row' = st.append_row
           /\ inserted' = st.inserted
           /\ updated' = st.updated
    /\ pc' = "normalize"
    /\ UNCHANGED <<ws_bd, svod0, bd_by_agent, terminals_by_agent, agents_in_bd,
                   to_delete, deleted, deleted_rows, last_data_row,
                   existing_row_by_agent>>

\* lines 497-508
Normalize ==
    /\ FrameInside
    /\ pc = "normalize"
    /\ LET last == get_last_data_row(ws_svod, COL_AGENT)
       IN  /\ last_data_row' = last
           /\ ws_svod' = NormalizeBools(ws_svod, last)
    /\ pc' = "done"
    /\ UNCHANGED <<ws_bd, svod0, bd_by_agent, terminals_by_agent, agents_in_bd,
                   to_delete, deleted, deleted_rows, existing_row_by_agent,
                   append_row, inserted, updated>>

NextInside == ScanBd \/ DeleteScan \/ DeleteRow \/ IndexSvod \/ Upsert \/ Normalize

SpecInside == InitInside /\ [][NextInside]_vars

-----------------------------------------------------------------------------
(* sync_master.py: configuration and helpers.                              *)

\* CONFIG["columns"], CONFIG["agentIdColumn"], CONFIG["dataStartRow"]
MASTER_COLUMNS ==
    <<COL_UL, COL_MTS, COL_TERMINAL, COL_AGENT, COL_GUID, COL_SSPS>>

MasterSrcCols == Range(MASTER_COLUMNS)

\* the target sheet also has a column that is not synchronised
MasterTgtCols == Range(MASTER_COLUMNS) \cup {COL_CERT}

RECURSIVE ZFill(_, _)
ZFill(s, width) == IF Len(s) >= width THEN s ELSE ZFill(<<"0">> \o s, width)

\* sync_master.normalize_mts_id
normalize_mts_id_master(value) ==
    IF value.t = "none" THEN <<>>
    ELSE LET s == PyStr(value)
             digits == SelectSeq(s, IsDigit)
         IN  IF digits = <<>> \/ Len(digits) > 9 THEN s ELSE ZFill(digits, 9)

\* agent_id is None or str(agent_id) == ""
MasterNoKey(agent_id) == agent_id.t = "none" \/ PyStr(agent_id) = <<>>

row_is_empty(row_vals) ==
    \A c \in DOMAIN row_vals : row_vals[c].t = "none" \/ PyStr(row_vals[c]) = <<>>

\* lines 96-109: source_map, first row of a key wins
RECURSIVE MasterScanSource(_, _, _)
MasterScanSource(d, ws, r) ==
    IF r > max_row(ws) THEN d
    ELSE LET agent_id == Cell(ws, r, COL_AGENT)
             key == PyStr(agent_id)
             row_data == [c \in MasterSrcCols |->
                             IF c = COL_MTS
                             THEN Str(normalize_mts_id_master(Cell(ws, r, c)))
                             ELSE Cell(ws, r, c)]
         IN  MasterScanSource(
                 IF MasterNoKey(agent_id) \/ DictHas(d, key) THEN d
                 ELSE DictSet(d, key, row_data),
                 ws, r + 1)

\* lines 117-123: existing_agent_rows
RECURSIVE MasterScanTarget(_, _, _)
MasterScanTarget(d, ws, r) ==
    IF r > max_row(ws) THEN d
    ELSE LET agent_id == Cell(ws, r, COL_AGENT)
         IN  MasterScanTarget(
                 IF MasterNoKey(agent_id) THEN d
                 ELSE DictSet(d, PyStr(agent_id), r),
                 ws, r + 1)

\* lines 130-131: the target row equals the source record, compared as strings
MasterSame(ws, r, src_row_data) ==
    \A c \in MasterSrcCols : PyStr(Cell(ws, r, c)) = PyStr(src_row_data[c])

\* lines 126-136: decide update / clear for every keyed target row
RECURSIVE MasterDecide(_, _, _, _)
MasterDecide(st, existing, i, ws) ==
    IF i > Len(existing) THEN st
    ELSE LET agent_id == existing[i][1]
             r == existing[i][2]
         IN  MasterDecide(
                 IF DictHas(st.source_map, agent_id)
                 THEN [st EXCEPT
                         !.updates =
                             IF MasterSame(ws, r, DictGet(st.source_map, agent_id))
                             THEN st.updates
                             ELSE Append(st.updates,
                                         <<r, DictGet(st.source_map, agent_id)>>),
                         !.source_map = DictDel(st.source_map, agent_id)]
                 ELSE [st EXCEPT !.clears = Append(st.clears, r)],
                 existing, i + 1, ws)

\* the value written for column c of a record (lines 146-150, 164-167)
MasterValue(data, c) ==
    IF c = COL_MTS THEN Str(normalize_mts_id_master(data[c])) ELSE data[c]

RECURSIVE MasterWriteCols(_, _, _, _)
MasterWriteCols(ws, r, cols, valueOf) ==
    IF cols = <<>> THEN ws
    ELSE MasterWriteCols(SetCell(ws, r, cols[1], valueOf[cols[1]], MasterTgtCols),
                         r, Tail(cols), valueOf)

\* lines 139-141
RECURSIVE MasterClears(_, _)
MasterClears(ws, cl) ==
    IF cl = <<>> THEN ws
    ELSE MasterClears(
             MasterWriteCols(ws, cl[1], MASTER_COLUMNS,
                             [c \in MasterSrcCols |-> None]),
             Tail(cl))

\* lines 144-150
RECURSIVE MasterUpdates(_, _)
MasterUpdates(ws, up) ==
    IF up = <<>> THEN ws
    ELSE MasterUpdates(
             MasterWriteCols(ws, up[1][1], MASTER_COLUMNS,
                             [c \in MasterSrcCols |-> MasterValue(up[1][2], c)]),
             Tail(up))

\* lines 153-158
RECURSIVE FindFirstEmptyFrom(_, _)
FindFirstEmptyFrom(ws, r) ==
    IF r > max_row(ws) + 1 THEN max_row(ws) + 1
    ELSE IF row_is_empty([c \in MasterSrcCols |-> Cell(ws, r, c)]) THEN r
    ELSE FindFirstEmptyFrom(ws, r + 1)

find_first_empty(ws) == FindFirstEmptyFrom(ws, 2)

\* lines 162-169: every record left in source_map goes to insert_r, insert_r + 1, ...
RECURSIVE MasterInserts(_, _, _)
MasterInserts(st, smap, i) ==
    IF i > Len(smap) THEN st
    ELSE MasterInserts(
             [ws |-> MasterWriteCols(st.ws, st.insert_r, MASTER_COLUMNS,
                         [c \in MasterSrcCols |-> MasterValue(smap[i][2], c)]),
              insert_r |-> st.insert_r + 1,
              inserted |-> st.inserted + 1,
              log |-> Append(st.log,
                         [agent |-> smap[i][1], r |-> st.insert_r,
                          before |-> [c \in MasterSrcCols |->
                                         Cell(st.ws, st.insert_r, c)]])],
             smap, i + 1)

-----------------------------------------------------------------------------
(* Inputs of sync_master.main: the source and the target sheet.            *)

MaxSrcRows == 3
MaxTgtRows == 2

MasterSrcRow(agent, mts, ul) ==
    [c \in MasterSrcCols |->
        CASE c = COL_AGENT -> agent
          [] c = COL_MTS -> mts
          [] c = COL_UL -> ul
          [] OTHER -> None]

MasterSrcRows ==
    { MasterSrcRow(Str(<<"a">>), Num(123), Str(<<"x">>)),
      MasterSrcRow(Str(<<"a">>), Str(<<"4">>), Str(<<"q">>)),
      MasterSrcRow(Str(<<"n">>), None, None),
      MasterSrcRow(Str(<<"m">>), Str(<<"7", "7">>), Str(<<"y">>)),
      MasterSrcRow(Str(<<" ">>), None, Str(<<"w">>)) }

MasterTgtRow(agent, mts, ul, cert) ==
    [c \in MasterTgtCols |->
        CASE c = COL_AGENT -> agent
          [] c = COL_MTS -> mts
          [] c = COL_UL -> ul
          [] c = COL_CERT -> cert
          [] OTHER -> None]

MasterTgtRows ==
    { MasterTgtRow(Str(<<"a">>),
                   Str(<<"0", "0", "0", "0", "0", "0", "1", "2", "3">>),
                   Str(<<"x">>), Num(1)),
      MasterTgtRow(Str(<<"a">>), Num(123), Str(<<"o">>), Num(0)),
      MasterTgtRow(Str(<<"c">>), None, Str(<<"z">>), Num(1)),
      MasterTgtRow(None, None, None, None),
      MasterTgtRow(None, None, Str(<<"k">>), Num(1)) }

InitMaster ==
    /\ pc = "m_start"
    /\ IdleBack
    /\ IdleBools
    /\ IdleInside
    /\ IdleExport
    /\ IdleTerminals
    /\ IdleHeaders
    /\ IdleMain
    /\ IdlePure
    /\ src_ws \in SeqsUpTo(MasterSrcRows, MaxSrcRows)
    /\ tgt_ws \in SeqsUpTo(MasterTgtRows, MaxTgtRows)
    /\ tgt_ws0 = tgt_ws
    /\ run = 0
    /\ source_map = <<>>
    /\ existing_agent_rows = <<>>
    /\ updates = <<>>
    /\ clears = <<>>
    /\ insert_r = 2
    /\ m_inserted = 0
    /\ insert_log = <<>>

-----------------------------------------------------------------------------
(* sync_master.main.  main is run once, and once more on its own result    *)
(* with the source unchanged.                                              *)

\* lines 72-123: download both files, build source_map and existing_agent_rows
MasterScan ==
    /\ FrameMaster
    /\ \/ pc = "m_start"
       \/ pc = "m_done" /\ run = 1
    /\ run' = run + 1
    /\ tgt_ws0' = tgt_ws
    /\ source_map' = MasterScanSource(<<>>, src_ws, 2)
    /\ existing_agent_rows' = MasterScanTarget(<<>>, tgt_ws, 2)
    /\ updates' = <<>>
    /\ clears' = <<>>
    /\ insert_r' = 2
    /\ m_inserted' = 0
    /\ insert_log' = <<>>
    /\ pc' = "m_scanned"
    /\ UNCHANGED <<src_ws, tgt_ws>>

\* lines 125-174: decide, clear, update, insert, upload
MasterApply ==
    /\ FrameMaster
    /\ pc = "m_scanned"
    /\ LET dec == MasterDecide([source_map |-> source_map, updates |-> <<>>,
                                clears |-> <<>>],
                               existing_agent_rows, 1, tgt_ws)
           ws1 == MasterUpdates(MasterClears(tgt_ws, dec.clears), dec.updates)
           first == find_first_empty(ws1)
           ins == MasterInserts([ws |-> ws1, insert_r |-> first, inserted |-> 0,
                                 log |-> <<>>], dec.source_map, 1)
       IN  /\ source_map' = dec.source_map
           /\ updates' = dec.updates
           /\ clears' = dec.clears
           /\ tgt_ws' = ins.ws
           /\ insert_r' = ins.insert_r
           /\ m_inserted' = ins.inserted
           /\ insert_log' = ins.log
    /\ pc' = "m_done"
    /\ UNCHANGED <<src_ws, tgt_ws0, run, existing_agent_rows>>

NextMaster == MasterScan \/ MasterApply

SpecMaster == InitMaster /\ [][NextMaster]_vars

-----------------------------------------------------------------------------
(* sync_xlsx.py: sync_source_to_target with the default settings           *)
(* KEY_COLUMN_EXPORT = UL and COLUMNS_TO_SYNC_EXPORT (lines 34-38).        *)

KEY_COLUMN_EXPORT == COL_UL
ENG_COL == "ENG"

\* cols: the columns of COLUMNS_TO_SYNC_EXPORT, which already hold BOOL_COLS
ExportColumns ==
    <<COL_UL, COL_TERMINAL, COL_MTS, COL_CERT, COL_CERT_MTS, COL_TICKETS>>

\* src_map: the header of the source sheet
ExportSrcHeader == Range(ExportColumns)

\* tgt_map after ensure_header: cols, then ENG
ExportTgtCols == Range(ExportColumns) \cup {ENG_COL}

AsciiLowerOrDigit ==
    {"a", "b", "c", "d", "e", "f", "g", "h", "i", "j", "k", "l", "m", "n", "o",
     "p", "q", "r", "s", "t", "u", "v", "w", "x", "y", "z"} \cup Range(Digits)

\* ru_to_translit, the table m and the branches of lines 169-175
TranslitCh(ch) ==
    CASE ch = "ru_d" -> <<"d">>
      [] ch = "ru_a" -> <<"a">>
      [] ch = "ru_zh" -> <<"z", "h">>
      [] ch = "ru_soft" -> <<>>
      [] ch = " " -> <<"_">>
      [] ch = "_" -> <<"_">>
      [] ch = "-" -> <<"-">>
      [] ch \in AsciiLowerOrDigit -> <<ch>>
      [] OTHER -> <<"_">>

RECURSIVE TranslitAll(_)
TranslitAll(s) ==
    IF s = <<>> THEN <<>> ELSE TranslitCh(s[1]) \o TranslitAll(Tail(s))

\* while "__" in slug: slug = slug.replace("__", "_")
RECURSIVE CollapseUnderscores(_)
CollapseUnderscores(s) ==
    IF Len(s) < 2 THEN s
    ELSE IF s[1] = "_" /\ s[2] = "_" THEN CollapseUnderscores(Tail(s))
    ELSE <<s[1]>> \o CollapseUnderscores(Tail(s))

RECURSIVE StripUnderscores(_)
StripUnderscores(s) ==
    IF s # <<>> /\ s[1] = "_" THEN StripUnderscores(Tail(s))
    ELSE IF s # <<>> /\ s[Len(s)] = "_"
         THEN StripUnderscores(SubSeq(s, 1, Len(s) - 1))
    ELSE s

ru_to_translit(text) ==
    StripUnderscores(CollapseUnderscores(TranslitAll(Lower(Strip(text)))))

\* src_data when the first row of a key is the one kept
RECURSIVE ExportReadSourceFirstWins(_, _, _, _)
ExportReadSourceFirstWins(d, ws, r, src_last) ==
    IF r > src_last THEN d
    ELSE LET key == get_cell_str(ws, r, KEY_COLUMN_EXPORT)
             row_payload == [c \in Range(ExportColumns) |->
                                IF c \in ExportSrcHeader THEN get_cell_str(ws, r, c)
                                ELSE <<>>]
         IN  ExportReadSourceFirstWins(
                 IF key = <<>> \/ DictHas(d, key) THEN d
                 ELSE DictSet(d, key, row_payload),
                 ws, r + 1, src_last)

\* lines 606-617: src_data; a later row of the same key replaces the payload
RECURSIVE ExportReadSource(_, _, _, _)
ExportReadSource(d, ws, r, src_last) ==
    IF r > src_last THEN d
    ELSE LET key == get_cell_str(ws, r, KEY_COLUMN_EXPORT)
             row_payload == [c \in Range(ExportColumns) |->
                                IF c \in ExportSrcHeader THEN get_cell_str(ws, r, c)
                                ELSE <<>>]
         IN  ExportReadSource(IF key = <<>> THEN d ELSE DictSet(d, key, row_payload),
                              ws, r + 1, src_last)

\* line 656-657: an empty boolean of an inserted row becomes 0
ExportInsertValue(col, val) ==
    IF col \in Range(SVOD_BOOL_COLS) /\ Strip(val) = <<>> THEN Num(0) ELSE Str(val)

RECURSIVE ExportWriteInserted(_, _, _, _)
ExportWriteInserted(ws, rr, cols, payload) ==
    IF cols = <<>> THEN ws
    ELSE ExportWriteInserted(
             SetCell(ws, rr, cols[1], ExportInsertValue(cols[1], payload[cols[1]]),
                     ExportTgtCols),
             rr, Tail(cols), payload)

\* one iteration of the loop of lines 636-661
ExportUpsertOne(st, key, payload, by_key) ==
    IF DictHas(by_key, key)
    THEN [st EXCEPT !.ws = WriteCols(st.ws, DictGet(by_key, key), ExportColumns,
                                     payload, ExportTgtCols),
                    !.updated = st.updated + 1]
    ELSE [st EXCEPT !.ws = ExportWriteInserted(st.ws, st.append_row,
                                               ExportColumns, payload),
                    !.append_row = st.append_row + 1,
                    !.inserted = st.inserted + 1]

RECURSIVE ExportUpsertFrom(_, _, _, _)
ExportUpsertFrom(st, data, i, by_key) ==
    IF i > Len(data) THEN st
    ELSE ExportUpsertFrom(ExportUpsertOne(st, data[i][1], data[i][2], by_key),
                          data, i + 1, by_key)

\* lines 673-683: an empty boolean cell becomes 0, a recognised one 0/1
ExportNormalizeCell(v) ==
    IF is_empty_cell(v) THEN Num(0)
    ELSE IF normalize_bool_to_01(v).t = "none" THEN v
    ELSE normalize_bool_to_01(v)

\* lines 664-683, over rows 2..last
ExportNormalizeBools(ws, last) ==
    LET p == PadTo(ws, last, ExportTgtCols) IN
    [i \in 1..Len(p) |->
        IF i + 1 <= last
        THEN [c \in DOMAIN p[i] |->
                 IF c \in Range(SVOD_BOOL_COLS) THEN ExportNormalizeCell(p[i][c])
                 ELSE p[i][c]]
        ELSE p[i]]

ExportEngSkipFilledOnly(ul_val, eng_val) == ~is_empty_cell(eng_val)

\* lines 705-708: a row without UL, or with ENG filled, is skipped
ExportEngSkip(ul_val, eng_val) ==
    is_empty_cell(ul_val) \/ ~is_empty_cell(eng_val)

\* lines 694-711, over rows 2..last_ul
ExportFillEng(ws, last_ul) ==
    [i \in 1..Len(ws) |->
        IF i + 1 <= last_ul /\ ~ExportEngSkip(ws[i][COL_UL], ws[i][ENG_COL])
        THEN [ws[i] EXCEPT ![ENG_COL] = Str(ru_to_translit(PyStr(ws[i][COL_UL])))]
        ELSE ws[i]]

-----------------------------------------------------------------------------
(* Inputs of sync_source_to_target.                                        *)

MaxExportSrcRows == 2
MaxExportTgtRows == 3

ExportSrcRow(ul, cert, cert_mts) ==
    [c \in ExportSrcHeader |->
        CASE c = COL_UL -> ul
          [] c = COL_CERT -> cert
          [] c = COL_CERT_MTS -> cert_mts
          [] c = COL_MTS -> Str(<<"7">>)
          [] OTHER -> None]

ExportSrcRows ==
    { ExportSrcRow(Str(<<"a">>), Num(1), Str(<<"x">>)),
      ExportSrcRow(Str(<<"a", " ">>), None, Str(<<"n", "o">>)),
      ExportSrcRow(Str(<<"B", " ", "b">>), Bool(TRUE), None),
      ExportSrcRow(None, Num(1), Num(1)) }

ExportTgtRow(ul, eng, cert, cert_mts, mts) ==
    [c \in ExportTgtCols |->
        CASE c = COL_UL -> ul
          [] c = ENG_COL -> eng
          [] c = COL_CERT -> cert
          [] c = COL_CERT_MTS -> cert_mts
          [] c = COL_MTS -> mts
          [] OTHER -> None]

ExportTgtRows ==
    { ExportTgtRow(Str(<<"a">>), None, Num(0), Str(<<"RU_D", "ru_a">>), None),
      ExportTgtRow(None, None, None, Str(<<" ", "RU_D", "ru_a">>), Str(<<"5">>)),
      ExportTgtRow(Str(<<" ">>), None, Str(<<"x">>), Num(1), None),
      ExportTgtRow(Str(<<"c">>), Str(<<"c">>), Num(1), None, None) }

InitExport ==
    /\ pc = "x_read"
    /\ IdleBack
    /\ IdleBools
    /\ IdleInside
    /\ IdleMaster
    /\ IdleTerminals
    /\ IdleHeaders
    /\ IdleMain
    /\ IdlePure
    /\ ws_src \in SeqsUpTo(ExportSrcRows, MaxExportSrcRows)
    /\ ws_tgt \in SeqsUpTo(ExportTgtRows, MaxExportTgtRows)
    /\ ws_tgt0 = ws_tgt
    /\ src_data = <<>>
    /\ tgt_row_by_key = <<>>
    /\ tgt_last = 1
    /\ x_append_row = 2
    /\ x_updated = 0
    /\ x_inserted = 0

-----------------------------------------------------------------------------
(* sync_source_to_target, step by step.                                    *)

\* lines 602-633
ExportRead ==
    /\ FrameExport
    /\ pc = "x_read"
    /\ LET src_last == get_last_data_row(ws_src, KEY_COLUMN_EXPORT)
           last == get_last_data_row(ws_tgt, KEY_COLUMN_EXPORT)
       IN  /\ src_data' = ExportReadSource(<<>>, ws_src, 2, src_last)
           /\ tgt_last' = last
           /\ tgt_row_by_key' =
                  IF last >= 2
                  THEN ExistingRows(<<>>, ws_tgt, KEY_COLUMN_EXPORT, 2, last)
                  ELSE <<>>
           /\ x_append_row' = IF last >= 2 THEN last + 1 ELSE 2
    /\ x_updated' = 0
    /\ x_inserted' = 0
    /\ pc' = "x_upsert"
    /\ UNCHANGED <<ws_src, ws_tgt, ws_tgt0>>

\* lines 636-661
ExportUpsert ==
    /\ FrameExport
    /\ pc = "x_upsert"
    /\ LET st == ExportUpsertFrom([ws |-> ws_tgt, append_row |-> x_append_row,
                                   inserted |-> 0, updated |-> 0],
                                  src_data, 1, tgt_row_by_key)
       IN  /\ ws_tgt' = st.ws
           /\ x_append_row' = st.append_row
           /\ x_inserted' = st.inserted
           /\ x_updated' = st.updated
    /\ pc' = "x_normalize"
    /\ UNCHANGED <<ws_src, ws_tgt0, src_data, tgt_row_by_key, tgt_last>>

\* lines 663-683
ExportNormalize ==
    /\ FrameExport
    /\ pc = "x_normalize"
    /\ LET last == get_last_data_row(ws_tgt, KEY_COLUMN_EXPORT)
           last2 == IF last > 2 THEN last ELSE 2
       IN  /\ tgt_last' = last2
           /\ ws_tgt' = ExportNormalizeBools(ws_tgt, last2)
    /\ pc' = "x_eng"
    /\ UNCHANGED <<ws_src, ws_tgt0, src_data, tgt_row_by_key, x_append_row,
                   x_updated, x_inserted>>

\* lines 693-721
ExportEng ==
    /\ FrameExport
    /\ pc = "x_eng"
    /\ ws_tgt' = ExportFillEng(ws_tgt, get_last_data_row(ws_tgt, COL_UL))
    /\ pc' = "x_done"
    /\ UNCHANGED <<ws_src, ws_tgt0, src_data, tgt_row_by_key, tgt_last,
                   x_append_row, x_updated, x_inserted>>

NextExport == ExportRead \/ ExportUpsert \/ ExportNormalize \/ ExportEng

SpecExport == InitExport /\ [][NextExport]_vars

-----------------------------------------------------------------------------
(* sync_bd_source_to_target_terminals.py: configuration and helpers.       *)

COL_REGION == "Region"
COL_CITY == "Gorod"
COL_STREET == "Ulitsa"
COL_HOUSE == "Dom"
COL_BD_COMMENTS == "Kommentarii"
COL_COMMENTS_MTS == "Kommentarii (MTS)"
COL_COMMENTS_STOLOTO == "Kommentarii (Stoloto)"
COL_MTS_ALT == "MTSID"

TARGET_BASE_COLS ==
    <<COL_UL, COL_MTS, COL_TERMINAL, COL_REGION, COL_CITY, COL_STREET, COL_HOUSE,
      COL_AGENT, COL_CERT, COL_CERT_MTS, COL_BD_COMMENTS, COL_COMMENTS_MTS,
      COL_COMMENTS_STOLOTO>>

\* tgt_map after ensure_headers(ws_tgt, TARGET_BASE_COLS)
TerminalsTgtCols == Range(TARGET_BASE_COLS)

\* every column name a BD header can hold
TerminalsBdCols ==
    {COL_UL, COL_MTS, COL_MTS_ALT, COL_TERMINAL, COL_REGION, COL_CITY, COL_STREET,
     COL_HOUSE, COL_AGENT, COL_BD_COMMENTS}

CERT_OK_PHRASE ==
    <<
      "ru_e", "ru_s", "ru_t", "ru_soft", " ", "ru_v", "ru_s", "ru_e", ",",
      " ", "ru_n", "ru_o", " ", "ru_s", "ru_o", " ", "ru_s", "ru_t", "ru_o",
      "ru_r", "ru_o", "ru_n", "ru_y", " ", "ru_m", "ru_t", "ru_s", " ",
      "ru_n", "ru_e", "ru_t", " ", "ru_s", "ru_e", "ru_r", "ru_t", "ru_i",
      "ru_f", "ru_i", "ru_k", "ru_a", "ru_t", "ru_a"
    >>

\* a text without digits, or with more than nine, returned as it is
normalize_mts_id_keep_text(value) ==
    IF value.t = "none" THEN <<>>
    ELSE LET s == PyStr(value)
             digits == SelectSeq(s, IsDigit)
         IN  IF digits = <<>> \/ Len(digits) > 9 THEN s ELSE ZFill(digits, 9)

\* sync_bd_source_to_target_terminals.normalize_mts_id
normalize_mts_id(value) ==
    IF value.t = "none" THEN <<>>
    ELSE LET s == Strip(PyStr(value))
             digits == SelectSeq(s, IsDigit)
         IN  IF s = <<>> THEN <<>>
             ELSE IF digits = <<>> THEN <<>>
             ELSE IF Len(digits) > 9 THEN digits
             ELSE ZFill(digits, 9)

\* 1 also for a comment that begins with the phrase
cert_value_phrase_prefix(comment_value) ==
    LET s == IF comment_value.t = "none" THEN <<>>
             ELSE Lower(Strip(PyStr(comment_value)))
    IN  IF s = <<>> THEN 1
        ELSE IF Len(s) >= Len(CERT_OK_PHRASE)
                /\ SubSeq(s, 1, Len(CERT_OK_PHRASE)) = CERT_OK_PHRASE THEN 1
        ELSE 0

cert_value_from_bd_comment(comment_value) ==
    LET s == IF comment_value.t = "none" THEN <<>>
             ELSE Lower(Strip(PyStr(comment_value)))
    IN  IF s = <<>> THEN 1 ELSE IF s = CERT_OK_PHRASE THEN 1 ELSE 0

\* pick_bd_mts_col: the name of the MTS column of BD, None when there is none
pick_bd_mts_col(hdr) ==
    IF COL_MTS \in hdr THEN Str(<<COL_MTS>>)
    ELSE IF COL_MTS_ALT \in hdr THEN Str(<<COL_MTS_ALT>>)
    ELSE None

\* bd_val (lines 375-382)
bd_val(ws, r, hdr, col_name) ==
    IF col_name = COL_MTS
    THEN LET bd_mts_name == pick_bd_mts_col(hdr)
         IN  IF bd_mts_name # None /\ bd_mts_name.s[1] \in hdr
             THEN normalize_mts_id(Cell(ws, r, bd_mts_name.s[1]))
             ELSE <<>>
    ELSE IF col_name \in hdr THEN get_cell_str(ws, r, col_name)
    ELSE <<>>

\* payload (lines 384-396): texts, and the number cert_val
TerminalsPayload(ws, r, hdr, agent) ==
    [c \in {COL_UL, COL_MTS, COL_TERMINAL, COL_REGION, COL_CITY, COL_STREET,
            COL_HOUSE, COL_AGENT, COL_CERT} |->
        IF c = COL_AGENT THEN Str(agent)
        ELSE IF c = COL_CERT
             THEN Num(cert_value_from_bd_comment(
                          IF COL_BD_COMMENTS \in hdr
                          THEN Cell(ws, r, COL_BD_COMMENTS) ELSE None))
        ELSE Str(bd_val(ws, r, hdr, c))]

TerminalsMatchedColsWithCertMts ==
    <<COL_UL, COL_MTS, COL_TERMINAL, COL_REGION, COL_CITY, COL_STREET, COL_HOUSE,
      COL_AGENT, COL_CERT, COL_CERT_MTS, COL_COMMENTS_MTS, COL_COMMENTS_STOLOTO>>

\* line 402: the columns written on a matched row
TerminalsMatchedCols ==
    <<COL_UL, COL_MTS, COL_TERMINAL, COL_REGION, COL_CITY, COL_STREET, COL_HOUSE,
      COL_AGENT, COL_CERT>>

\* line 423: the columns written on a new row
TerminalsInsertedCols ==
    <<COL_UL, COL_MTS, COL_TERMINAL, COL_REGION, COL_CITY, COL_STREET, COL_HOUSE,
      COL_AGENT, COL_CERT>>

\* ws.cell(rr, tgt_map[col]).value = payload.get(col, "") for every col of cols
RECURSIVE TerminalsWrite(_, _, _, _)
TerminalsWrite(ws, rr, cols, payload) ==
    IF cols = <<>> THEN ws
    ELSE TerminalsWrite(
             IF cols[1] \notin TerminalsTgtCols THEN ws
             ELSE SetCell(ws, rr, cols[1],
                          IF cols[1] \in DOMAIN payload THEN payload[cols[1]]
                          ELSE Str(<<>>),
                          TerminalsTgtCols),
             rr, Tail(cols), payload)

\* one iteration of the loop of lines 365-436
TerminalsRow(st, bd, r, hdr) ==
    LET agent == get_cell_str(bd, r, COL_AGENT) IN
    IF agent = <<>> THEN st
    ELSE
      LET payload == TerminalsPayload(bd, r, hdr, agent) IN
      IF DictHas(st.row_by_agent, agent)
      THEN [st EXCEPT
              !.ws = TerminalsWrite(st.ws, DictGet(st.row_by_agent, agent),
                                    TerminalsMatchedCols, payload),
              !.updated = st.updated + 1]
      ELSE
        LET rr == (IF st.tgt_last > 1 THEN st.tgt_last ELSE 1) + 1
            w1 == TerminalsWrite(st.ws, rr, TerminalsInsertedCols, payload)
            w2 == SetCell(w1, rr, COL_CERT_MTS, Num(0), TerminalsTgtCols)
            w3 == SetCell(w2, rr, COL_COMMENTS_MTS, Str(<<>>), TerminalsTgtCols)
            w4 == SetCell(w3, rr, COL_COMMENTS_STOLOTO, Str(<<>>), TerminalsTgtCols)
        IN  [ws |-> w4, tgt_last |-> rr,
             row_by_agent |-> DictSet(st.row_by_agent, agent, rr),
             updated |-> st.updated, inserted |-> st.inserted + 1]

RECURSIVE TerminalsLoop(_, _, _, _, _)
TerminalsLoop(st, bd, r, bd_last, hdr) ==
    IF r > bd_last THEN st
    ELSE TerminalsLoop(TerminalsRow(st, bd, r, hdr), bd, r + 1, bd_last, hdr)

-----------------------------------------------------------------------------
(* Inputs of sync_bd_to_target.                                            *)

MaxTerminalsBdRows == 2
MaxTerminalsTgtRows == 2

TerminalsBdHeaders ==
    { TerminalsBdCols \ {COL_MTS_ALT},
      TerminalsBdCols \ {COL_MTS, COL_BD_COMMENTS, COL_REGION} }

TerminalsBdRow(agent, ul, comment, mts) ==
    [c \in TerminalsBdCols |->
        CASE c = COL_AGENT -> agent
          [] c = COL_UL -> ul
          [] c = COL_BD_COMMENTS -> comment
          [] c = COL_MTS -> mts
          [] c = COL_MTS_ALT -> mts
          [] c = COL_TERMINAL -> Num(1)
          [] OTHER -> None]

TerminalsBdRows ==
    { TerminalsBdRow(Str(<<"a">>), Str(<<"x">>), None, Num(5)),
      TerminalsBdRow(Str(<<" ", "a">>), Str(<<"y">>), Str(<<"b", "a", "d">>), None),
      TerminalsBdRow(Str(<<"n">>), None,
                     Str(<<" ", "RU_E">> \o Tail(CERT_OK_PHRASE)), Str(<<"x", "1">>)),
      TerminalsBdRow(None, Str(<<"x">>), None, None) }

TerminalsTgtRow(agent, ul, cert, cert_mts, comments) ==
    [c \in TerminalsTgtCols |->
        CASE c = COL_AGENT -> agent
          [] c = COL_UL -> ul
          [] c = COL_CERT -> cert
          [] c = COL_CERT_MTS -> cert_mts
          [] c = COL_BD_COMMENTS -> comments
          [] c = COL_COMMENTS_MTS -> comments
          [] c = COL_COMMENTS_STOLOTO -> comments
          [] OTHER -> None]

TerminalsTgtRows ==
    { TerminalsTgtRow(Str(<<"a">>), Str(<<"o">>), Num(0), Num(1), Str(<<"k">>)),
      TerminalsTgtRow(Str(<<"a", " ">>), Str(<<"x">>), Num(1), Str(<<"RU_D", "ru_a">>),
                      None),
      TerminalsTgtRow(Str(<<"c">>), None, Num(1), Num(0), Str(<<"m">>)),
      TerminalsTgtRow(None, None, None, Num(1), Str(<<"s">>)) }

InitTerminals ==
    /\ pc = "t_read"
    /\ IdleBack
    /\ IdleBools
    /\ IdleInside
    /\ IdleMaster
    /\ IdleExport
    /\ IdleHeaders
    /\ IdleMain
    /\ IdlePure
    /\ t_bd_map \in TerminalsBdHeaders
    /\ t_ws_bd \in SeqsUpTo(TerminalsBdRows, MaxTerminalsBdRows)
    /\ t_ws_tgt \in SeqsUpTo(TerminalsTgtRows, MaxTerminalsTgtRows)
    /\ t_ws_tgt0 = t_ws_tgt
    /\ row_by_agent = <<>>
    /\ t_tgt_last = 1
    /\ t_updated = 0
    /\ t_inserted = 0

-----------------------------------------------------------------------------
(* sync_bd_to_target, step by step.                                        *)

\* lines 330-362
TerminalsRead ==
    /\ FrameTerminals
    /\ pc = "t_read"
    /\ LET last == get_last_data_row(t_ws_tgt, COL_AGENT)
       IN  /\ t_tgt_last' = last
           /\ row_by_agent' =
                  IF last >= 2 THEN ExistingRows(<<>>, t_ws_tgt, COL_AGENT, 2, last)
                  ELSE <<>>
    /\ t_updated' = 0
    /\ t_inserted' = 0
    /\ pc' = "t_loop"
    /\ UNCHANGED <<t_ws_bd, t_ws_tgt, t_ws_tgt0, t_bd_map>>

\* lines 364-450
TerminalsSync ==
    /\ FrameTerminals
    /\ pc = "t_loop"
    /\ LET st == TerminalsLoop([ws |-> t_ws_tgt, tgt_last |-> t_tgt_last,
                                row_by_agent |-> row_by_agent,
                                updated |-> 0, inserted |-> 0],
                               t_ws_bd, 2, get_last_data_row(t_ws_bd, COL_AGENT),
                               t_bd_map)
       IN  /\ t_ws_tgt' = st.ws
           /\ t_tgt_last' = st.tgt_last
           /\ row_by_agent' = st.row_by_agent
           /\ t_updated' = st.updated
           /\ t_inserted' = st.inserted
    /\ pc' = "t_done"
    /\ UNCHANGED <<t_ws_bd, t_ws_tgt0, t_bd_map>>

NextTerminals == TerminalsRead \/ TerminalsSync

SpecTerminals == InitTerminals /\ [][NextTerminals]_vars

-----------------------------------------------------------------------------
(* sync_inside_workbook, lines 403-415: the headers.  A header is the       *)
(* sequence of the names in row 1.                                          *)

\* ensure_columns_at_end: the names of needed that are absent, appended
RECURSIVE ensure_columns_at_end(_, _)
ensure_columns_at_end(hdr, needed) ==
    IF needed = <<>> THEN hdr
    ELSE ensure_columns_at_end(
             IF needed[1] \in Range(hdr) THEN hdr ELSE Append(hdr, needed[1]),
             Tail(needed))

ensure_svod_columns(hdr) == ensure_columns_at_end(hdr, SVOD_BOOL_COLS)

\* [c for c in required if c not in header]
Missing(required, hdr) == SelectSeq(required, LAMBDA c : c \notin Range(hdr))

\* the headers a sheet can come with: any of the names, in the usual order
HeadersOf(names) ==
    {SelectSeq(names, LAMBDA c : c \in S) : S \in SUBSET Range(names)}

InitHeaders ==
    /\ pc = "h_start"
    /\ IdleBack
    /\ IdleBools
    /\ IdleInside
    /\ IdleMaster
    /\ IdleExport
    /\ IdleTerminals
    /\ IdleMain
    /\ IdlePure
    /\ hdr_bd \in HeadersOf(BD_REQUIRED)
    /\ hdr_svod \in HeadersOf(SVOD_REQUIRED_BASE \o SVOD_BOOL_COLS)
    /\ hdr_svod0 = hdr_svod
    /\ raised = ""

\* lines 403-404
HeadersEnsure ==
    /\ FrameHeaders
    /\ pc = "h_start"
    /\ hdr_svod' = ensure_svod_columns(hdr_svod)
    /\ pc' = "h_ensured"
    /\ UNCHANGED <<hdr_bd, hdr_svod0, raised>>

\* lines 406-415
HeadersCheck ==
    /\ FrameHeaders
    /\ pc = "h_ensured"
    /\ IF Missing(BD_REQUIRED, hdr_bd) # <<>>
       THEN raised' = "Missing columns in BD" /\ pc' = "h_raised"
       ELSE IF Missing(SVOD_REQUIRED_BASE, hdr_svod) # <<>>
            THEN raised' = "Missing columns in SVOD" /\ pc' = "h_raised"
            ELSE raised' = "" /\ pc' = "h_checked"
    /\ UNCHANGED <<hdr_bd, hdr_svod, hdr_svod0>>

NextHeaders == HeadersEnsure \/ HeadersCheck

SpecHeaders == InitHeaders /\ [][NextHeaders]_vars

-----------------------------------------------------------------------------
(* disk_upload (sync_xlsx.py lines 96-123; the same loop stands in          *)
(* sync_bd_source_to_target_terminals.py lines 100-127).                    *)

DEFAULT_RETRIES == 8

MAX_WAIT == 30

MaxRetries == 4

\* the HTTP statuses a request is answered with
Statuses == {200, 399, 400, 423, 503}

ERR_UPLOAD_HREF == "UPLOAD(HREF) ERROR"
ERR_UPLOAD == "UPLOAD ERROR"
ERR_LOCKED == "UPLOAD ERROR: file is LOCKED too long (423)"

\* the call disk_upload(path, content, retries) made from caller
UploadCall(path, retries, caller) ==
    /\ up_path' = path
    /\ up_retries' = retries
    /\ up_caller' = caller
    /\ up_attempt' = 0
    /\ up_statuses' = <<>>
    /\ up_waits' = <<>>
    /\ up_outcome' = ""
    /\ pc' = "u_href"

\* disk_upload returns to its caller
UploadReturn ==
    /\ up_outcome' = "returned"
    /\ fatal' = fatal
    /\ pc' = CASE up_caller = "inside" -> "main_inside_uploaded"
              [] up_caller = "target" -> "main_target_uploaded"
              [] OTHER -> "u_end"

\* disk_upload raises; in main nothing catches it before the end of the run
UploadRaise(err) ==
    /\ up_outcome' = err
    /\ fatal' = IF up_caller = "" THEN fatal ELSE err
    /\ pc' = IF up_caller = "" THEN "u_end" ELSE "main_failed"

\* the wait doubles without a cap
UploadWaitUncapped(attempt) == 2 ^ attempt

\* wait = min(2**attempt, 30)
UploadWait(attempt) == IF 2 ^ attempt < MAX_WAIT THEN 2 ^ attempt ELSE MAX_WAIT

\* every error status is retried
UploadRetriedAnyError(s) == s >= 400

\* the status that is answered with a wait and another attempt
UploadRetried(s) == s = 423

UploadLoopEndsOneLate(attempt, retries) == attempt > retries + 1

\* range(1, retries + 1) is exhausted before the value attempt
UploadLoopEnds(attempt, retries) == attempt > retries

InitUpload ==
    /\ pc = "u_href"
    /\ IdleBack
    /\ IdleBools
    /\ IdleInside
    /\ IdleMaster
    /\ IdleExport
    /\ IdleTerminals
    /\ IdleHeaders
    /\ IdlePure
    /\ run_inside = FALSE /\ run_to_target = FALSE /\ target_path_set = FALSE
    /\ trace = <<>> /\ uploaded = <<>> /\ fatal = ""
    /\ up_path \in {"SOURCE", "TARGET"}
    /\ up_retries \in (0..MaxRetries) \cup {DEFAULT_RETRIES}
    /\ up_caller = ""
    /\ up_attempt = 0
    /\ up_statuses = <<>>
    /\ up_waits = <<>>
    /\ up_outcome = ""

\* lines 97-107: ask for the upload link, enter the loop
UploadHref ==
    /\ FrameMain
    /\ pc = "u_href"
    /\ \E s \in Statuses :
          IF s >= 400
          THEN UploadRaise(ERR_UPLOAD_HREF) /\ up_attempt' = up_attempt
          ELSE IF UploadLoopEnds(1, up_retries)
               THEN UploadRaise(ERR_LOCKED) /\ up_attempt' = up_attempt
               ELSE /\ pc' = "u_put"
                    /\ up_attempt' = 1
                    /\ UNCHANGED <<up_outcome, fatal>>
    /\ UNCHANGED <<run_inside, run_to_target, target_path_set, trace, uploaded,
                   up_path, up_retries, up_caller, up_statuses, up_waits>>

\* lines 107-123: one PUT and what follows it
UploadPut ==
    /\ FrameMain
    /\ pc = "u_put"
    /\ \E s \in Statuses :
          /\ up_statuses' = Append(up_statuses, s)
          /\ IF s < 400
             THEN /\ UploadReturn
                  /\ uploaded' = Append(uploaded, up_path)
                  /\ up_attempt' = up_attempt
                  /\ up_waits' = up_waits
             ELSE /\ uploaded' = uploaded
                  /\ IF UploadRetried(s)
                     THEN /\ up_waits' = Append(up_waits, UploadWait(up_attempt))
                          /\ IF UploadLoopEnds(up_attempt + 1, up_retries)
                             THEN UploadRaise(ERR_LOCKED) /\ up_attempt' = up_attempt
                             ELSE /\ up_attempt' = up_attempt + 1
                                  /\ UNCHANGED <<pc, up_outcome, fatal>>
                     ELSE /\ UploadRaise(ERR_UPLOAD)
                          /\ up_attempt' = up_attempt
                          /\ up_waits' = up_waits
    /\ UNCHANGED <<run_inside, run_to_target, target_path_set, trace,
                   up_path, up_retries, up_caller>>

NextUpload == UploadHref \/ UploadPut

SpecUpload == InitUpload /\ [][NextUpload]_vars

-----------------------------------------------------------------------------
(* sync_xlsx.main, lines 728-764.                                          *)

InitMain ==
    /\ pc = "main_start"
    /\ IdleBack
    /\ IdleBools
    /\ IdleInside
    /\ IdleMaster
    /\ IdleExport
    /\ IdleTerminals
    /\ IdleHeaders
    /\ IdlePure
    /\ run_inside \in BOOLEAN
    /\ run_to_target \in BOOLEAN
    /\ target_path_set \in BOOLEAN
    /\ trace = <<>> /\ uploaded = <<>> /\ fatal = ""
    /\ up_path = "" /\ up_retries = 0 /\ up_caller = "" /\ up_attempt = 0
    /\ up_statuses = <<>> /\ up_outcome = "" /\ up_waits = <<>>

UploadIdle == UNCHANGED <<up_path, up_retries, up_caller, up_attempt, up_statuses,
                          up_outcome, up_waits>>

MainFlags == UNCHANGED <<run_inside, run_to_target, target_path_set>>

\* a step of main that calls f: f returns, or raises err and the run ends
MainStep(event, err, next) ==
    \/ /\ trace' = Append(trace, event)
       /\ fatal' = fatal
       /\ pc' = next
    \/ /\ trace' = trace
       /\ fatal' = err
       /\ pc' = "main_failed"

\* the branch of line 744 and the end of main
MainAfterInside == IF run_to_target THEN "main_target_check" ELSE "main_done"

\* lines 729-732
MainStart ==
    /\ FrameMain
    /\ pc = "main_start"
    /\ pc' = IF run_inside THEN "main_inside_download" ELSE MainAfterInside
    /\ MainFlags /\ UploadIdle
    /\ UNCHANGED <<trace, uploaded, fatal>>

\* lines 733-735: src = disk_download(DISK_SOURCE_PATH)
MainInsideDownload ==
    /\ FrameMain
    /\ pc = "main_inside_download"
    /\ MainStep("download SOURCE", "DOWNLOAD ERROR", "main_inside_sync")
    /\ MainFlags /\ UploadIdle
    /\ UNCHANGED uploaded

\* lines 737-738: out = sync_inside_workbook(src)
MainInsideSync ==
    /\ FrameMain
    /\ pc = "main_inside_sync"
    /\ MainStep("sync_inside_workbook", "sheet or column not found",
                "main_inside_upload")
    /\ MainFlags /\ UploadIdle
    /\ UNCHANGED uploaded

\* lines 740-741: disk_upload(DISK_SOURCE_PATH, out)
MainInsideUpload ==
    /\ FrameMain
    /\ pc = "main_inside_upload"
    /\ UploadCall("SOURCE", DEFAULT_RETRIES, "inside")
    /\ MainFlags
    /\ UNCHANGED <<trace, uploaded, fatal>>

\* line 742, then the branch of line 744
MainInsideDone ==
    /\ FrameMain
    /\ pc = "main_inside_uploaded"
    /\ pc' = MainAfterInside
    /\ MainFlags /\ UploadIdle
    /\ UNCHANGED <<trace, uploaded, fatal>>

\* lines 745-746
MainTargetCheck ==
    /\ FrameMain
    /\ pc = "main_target_check"
    /\ IF target_path_set
       THEN pc' = "main_target_download_source" /\ fatal' = fatal
       ELSE pc' = "main_failed" /\ fatal' = "DISK_TARGET_PATH is empty"
    /\ MainFlags /\ UploadIdle
    /\ UNCHANGED <<trace, uploaded>>

\* lines 748-750
MainTargetDownloadSource ==
    /\ FrameMain
    /\ pc = "main_target_download_source"
    /\ MainStep("download SOURCE for TARGET", "DOWNLOAD ERROR",
                "main_target_download_target")
    /\ MainFlags /\ UploadIdle
    /\ UNCHANGED uploaded

\* lines 752-754
MainTargetDownloadTarget ==
    /\ FrameMain
    /\ pc = "main_target_download_target"
    /\ MainStep("download TARGET", "DOWNLOAD ERROR", "main_target_sync")
    /\ MainFlags /\ UploadIdle
    /\ UNCHANGED uploaded

\* lines 756-757: out_tgt = sync_source_to_target(src, tgt)
MainTargetSync ==
    /\ FrameMain
    /\ pc = "main_target_sync"
    /\ MainStep("sync_source_to_target", "sheet or column not found",
                "main_target_upload")
    /\ MainFlags /\ UploadIdle
    /\ UNCHANGED uploaded

\* lines 759-760: disk_upload(DISK_TARGET_PATH, out_tgt)
MainTargetUpload ==
    /\ FrameMain
    /\ pc = "main_target_upload"
    /\ UploadCall("TARGET", DEFAULT_RETRIES, "target")
    /\ MainFlags
    /\ UNCHANGED <<trace, uploaded, fatal>>

\* line 761
MainTargetDone ==
    /\ FrameMain
    /\ pc = "main_target_uploaded"
    /\ pc' = "main_done"
    /\ MainFlags /\ UploadIdle
    /\ UNCHANGED <<trace, uploaded, fatal>>

NextMain ==
    \/ MainStart
    \/ MainInsideDownload \/ MainInsideSync \/ MainInsideUpload \/ MainInsideDone
    \/ MainTargetCheck \/ MainTargetDownloadSource \/ MainTargetDownloadTarget
    \/ MainTargetSync \/ MainTargetUpload \/ MainTargetDone
    \/ UploadHref \/ UploadPut

SpecMain == InitMain /\ [][NextMain]_vars

-----------------------------------------------------------------------------
(* The pure helpers, each called once on an argument.                      *)

MaxTextLen == 3
MaxDigits == 10
MaxListLen == 4
MaxNum == 5

Ones(n) == [i \in 1..n |-> "1"]

TEXT_123 == <<"1", "2", "3">>
TEXT_1234567890 == <<"1", "2", "3", "4", "5", "6", "7", "8", "9", "0">>

\* cell values handed to normalize_mts_id
MtsInputs ==
    {None, Bool(TRUE), Num(0), Num(123), Num(1234567890)}
        \cup {Str(s) : s \in SeqsUpTo({"1", "0", " ", "-"}, MaxTextLen)}
        \cup {Str(Ones(n)) : n \in 1..MaxDigits}
        \cup {Str(<<" ">> \o Ones(n) \o <<"x">>) : n \in 1..MaxDigits}
        \cup {Str(<<"7", "-">> \o Ones(n)) : n \in 1..MaxDigits}
        \cup {Str(TEXT_123), Str(TEXT_1234567890)}

\* cell values handed to normalize_bool_to_01
BoolInputs ==
    {None, Bool(TRUE), Bool(FALSE)}
        \cup {Num(n) : n \in 0..MaxNum}
        \cup {Str(s) : s \in TRUE_TEXTS \cup FALSE_TEXTS}
        \cup {Str(s) : s \in SeqsUpTo({"1", "0", "y", " ", "x"}, MaxTextLen)}
        \cup {Str(<<"Y", "E", "S">>), Str(<<" ", "T", "r", "u", "e", " ">>),
              Str(<<"RU_D", "ru_a">>), Str(<<"N", "O">>), Str(<<"\t", "n", "\n">>),
              Str(<<"F", "A", "l", "s", "e">>), Str(<<"t", "r", "u", "e", "x">>),
              Str(<<"n", "o", " ", "n", "o">>), Str(<<"\t">>)}

\* comments handed to cert_value_from_bd_comment
CertInputs ==
    {None, Num(0), Bool(FALSE)}
        \cup {Str(s) : s \in SeqsUpTo({" ", "ru_e", "x"}, MaxTextLen)}
        \cup {Str(CERT_OK_PHRASE),
              Str(<<" ", "RU_E">> \o Tail(CERT_OK_PHRASE) \o <<"\n">>),
              Str(CERT_OK_PHRASE \o <<"!">>),
              Str(<<"x", " ">> \o CERT_OK_PHRASE),
              Str(SubSeq(CERT_OK_PHRASE, 1, Len(CERT_OK_PHRASE) - 1)),
              Str(CERT_OK_PHRASE \o <<" ">> \o CERT_OK_PHRASE),
              Str(<<"\t", " ">>)}

EXAMPLE_NUMS == <<1, 2, 3, 7, 8, 15>>

\* lists handed to compress_ranges
NumLists == SeqsUpTo(1..MaxNum, MaxListLen) \cup {EXAMPLE_NUMS, <<15, 8, 7, 3, 2, 1, 8>>}

Reverse(s) == [i \in 1..Len(s) |-> s[Len(s) + 1 - i]]

\* lists of ranges handed to format_ranges: what compress_ranges returns, and
\* the same ranges in descending order
RangeLists ==
    {compress_ranges(nums) : nums \in NumLists}
        \cup {Reverse(compress_ranges(nums)) : nums \in NumLists}

InitPure ==
    /\ pc = "p_call"
    /\ IdleBack
    /\ IdleBools
    /\ IdleInside
    /\ IdleMaster
    /\ IdleExport
    /\ IdleTerminals
    /\ IdleHeaders
    /\ IdleMain
    /\ res = <<>>
    /\ \/ fn = "normalize_mts_id" /\ arg \in MtsInputs
       \/ fn = "sync_master.normalize_mts_id" /\ arg \in MtsInputs
       \/ fn = "normalize_bool_to_01" /\ arg \in BoolInputs
       \/ fn = "cert_value_from_bd_comment" /\ arg \in CertInputs
       \/ fn = "compress_ranges" /\ arg \in NumLists
       \/ fn = "format_ranges" /\ arg \in RangeLists

CallPure(name, result) ==
    /\ FramePure
    /\ pc = "p_call"
    /\ fn = name
    /\ res' = result
    /\ pc' = "p_done"
    /\ UNCHANGED <<fn, arg>>

CallNormalizeMtsId == CallPure("normalize_mts_id", normalize_mts_id(arg))

CallNormalizeMtsIdMaster ==
    CallPure("sync_master.normalize_mts_id", normalize_mts_id_master(arg))

CallNormalizeBool == CallPure("normalize_bool_to_01", normalize_bool_to_01(arg))

CallCertValue ==
    CallPure("cert_value_from_bd_comment", cert_value_from_bd_comment(arg))

CallCompressRanges == CallPure("compress_ranges", compress_ranges(arg))

CallFormatRanges == CallPure("format_ranges", format_ranges(arg))

NextPure ==
    \/ CallNormalizeMtsId \/ CallNormalizeMtsIdMaster
    \/ CallNormalizeBool \/ CallCertValue
    \/ CallCompressRanges \/ CallFormatRanges

SpecPure == InitPure /\ [][NextPure]_vars

-----------------------------------------------------------------------------
(* The three reconciliation variants side by side: one run of any of them. *)

\* main's scan of the source does not read the target: a shorter target here
InitReconcile ==
    \/ InitMaster /\ Len(tgt_ws) < MaxTgtRows
    \/ InitExport
    \/ InitTerminals

NextReconcile == NextMaster \/ NextExport \/ NextTerminals

SpecReconcile == InitReconcile /\ [][NextReconcile]_vars

-----------------------------------------------------------------------------
(* Properties of sync_inside_workbook and delete_missing_agents.           *)

\* the trimmed text of a cell ("" for None)
CellText(v) == IF v.t = "none" THEN <<>> ELSE Strip(PyStr(v))

RowKey(row) == CellText(row[COL_AGENT])

KeysOf(ws) == {RowKey(ws[i]) : i \in 1..Len(ws)} \ {<<>>}

RowsWithKey(ws, k) == {i \in 1..Len(ws) : RowKey(ws[i]) = k}

MinOf(S) == CHOOSE x \in S : \A y \in S : x <= y
MaxOf(S) == CHOOSE x \in S : \A y \in S : x >= y

\* the keys of a sheet in order of first appearance
RECURSIVE FirstSeenKeys(_, _)
FirstSeenKeys(ws, i) ==
    IF i = 0 THEN <<>>
    ELSE LET before == FirstSeenKeys(ws, i - 1)
             k == RowKey(ws[i])
         IN  IF k = <<>> \/ k \in Range(before) THEN before ELSE Append(before, k)

\* C1: after sync_inside_workbook every agent key of BD occurs in exactly one
\* SVOD row, and no SVOD row holds a non-empty key that is absent from BD.
C1_OneRowPerBdKey ==
    pc = "done" =>
        /\ \A k \in KeysOf(ws_bd) : Cardinality(RowsWithKey(ws_svod, k)) = 1
        /\ KeysOf(ws_svod) \subseteq KeysOf(ws_bd)

\* C2: when delete_missing_agents returns, no SVOD row holds a non-empty key
\* outside agents_in_bd, every other row is still there with its values and in
\* the same relative order, the returned count is the number of rows removed,
\* and the rows were deleted in descending row order.
C2_DeleteMissingAgents ==
    /\ (pc = "deleting" /\ to_delete = <<>>) =>
          /\ KeysOf(ws_svod) \subseteq agents_in_bd
          /\ ws_svod = SelectSeq(svod0, LAMBDA row :
                           RowKey(row) = <<>> \/ RowKey(row) \in agents_in_bd)
          /\ deleted = Len(svod0) - Len(ws_svod)
    /\ \A i, j \in 1..Len(deleted_rows) :
          i < j => deleted_rows[i] > deleted_rows[j]

\* two rows were deleted and a row below them survived
C2_Witness ==
    /\ pc = "deleting" /\ to_delete = <<>>
    /\ deleted = 2
    /\ Len(svod0) = 3 /\ RowKey(svod0[3]) \in agents_in_bd
    /\ Len(ws_svod) = 1

BaseExceptTerminal == {COL_UL, COL_MTS, COL_AGENT, COL_GUID, COL_SSPS}

\* the first non-empty trimmed value of column c among the BD rows of key k
FirstBdValue(k, c) ==
    LET S == {i \in RowsWithKey(ws_bd, k) : CellText(ws_bd[i][c]) # <<>>}
    IN  IF S = {} THEN <<>> ELSE CellText(ws_bd[MinOf(S)][c])

\* C3: after sync_inside_workbook, every BD key has an SVOD row whose base
\* columns other than the terminal column hold the first non-empty trimmed
\* value of the column among the BD rows of the key ("" when there is none).
C3_BaseColumnsFromBd ==
    pc = "done" =>
        \A k \in KeysOf(ws_bd) :
            \E i \in RowsWithKey(ws_svod, k) :
                \A c \in BaseExceptTerminal :
                    ws_svod[i][c] = Str(FirstBdValue(k, c))

\* a key with two BD rows holding different values, and one holding none
C3_Witness ==
    /\ pc = "done"
    /\ \E k \in KeysOf(ws_bd) :
          /\ Cardinality(RowsWithKey(ws_bd, k)) = 2
          /\ \E i, j \in RowsWithKey(ws_bd, k) :
                /\ i < j
                /\ CellText(ws_bd[i][COL_UL]) = <<>>
                /\ CellText(ws_bd[j][COL_UL]) # <<>>
                /\ CellText(ws_bd[i][COL_MTS]) # CellText(ws_bd[j][COL_MTS])
          /\ updated = 1

\* SVOD as delete_missing_agents leaves it, computed from the sheets as loaded
SvodSurvivors ==
    SelectSeq(svod0, LAMBDA row :
        RowKey(row) = <<>> \/ RowKey(row) \in KeysOf(ws_bd))

LastKeyRow(ws) ==
    LET S == {i \in 1..Len(ws) : RowKey(ws[i]) # <<>>}
    IN  IF S = {} THEN 1 ELSE MaxOf(S) + 1

NewAgents ==
    SelectSeq(FirstSeenKeys(ws_bd, Len(ws_bd)),
              LAMBDA k : k \notin KeysOf(SvodSurvivors))

\* C8: the rows inserted for source-only agents are the consecutive rows after
\* the last data row of SVOD, in source insertion order, and each has the
\* three boolean columns set to 0.
C8_InsertedRows ==
    pc = "done" =>
        /\ inserted = Len(NewAgents)
        /\ \A j \in 1..Len(NewAgents) :
              LET r == LastKeyRow(SvodSurvivors) + j IN
              /\ r - 1 <= Len(ws_svod)
              /\ RowKey(ws_svod[r - 1]) = NewAgents[j]
              /\ \A c \in Range(SVOD_BOOL_COLS) : ws_svod[r - 1][c] = Num(0)

\* two agents were inserted, the first on a keyless row that held a flag
C8_Witness ==
    /\ pc = "done"
    /\ inserted = 2
    /\ LET r == LastKeyRow(SvodSurvivors) + 1 IN
          /\ r - 1 <= Len(svod0)
          /\ svod0[r - 1][COL_CERT] = Num(1)

-----------------------------------------------------------------------------
(* Properties of sync_master.main.                                         *)

\* the key of a row as main reads it: str(agent_id), "" for None
MasterKey(row) ==
    IF row[COL_AGENT].t = "none" THEN <<>> ELSE PyStr(row[COL_AGENT])

MasterKeysOf(ws) == {MasterKey(ws[i]) : i \in 1..Len(ws)} \ {<<>>}

\* the record of key k: its first source row, with the MTS ID normalised
MasterSourceRecord(k) ==
    LET i == MinOf({j \in 1..Len(src_ws) : MasterKey(src_ws[j]) = k})
    IN  [c \in MasterSrcCols |->
            IF c = COL_MTS THEN Str(normalize_mts_id_master(src_ws[i][c]))
            ELSE src_ws[i][c]]

\* the rows that main wrote a cell of
MasterWrittenRows ==
    Range(clears) \cup {updates[j][1] : j \in 1..Len(updates)}
        \cup {insert_log[j].r : j \in 1..Len(insert_log)}

\* C5: a target row whose key is in the source is not written and not counted
\* as updated when every synchronised column already equals, as a string, the
\* normalised source value; otherwise all its synchronised columns get the
\* source values and it is counted once.
C5_MatchedRowUpdate ==
    pc = "m_done" =>
        \A i \in 1..Len(tgt_ws0) :
            LET k == MasterKey(tgt_ws0[i]) IN
            (k # <<>> /\ k \in MasterKeysOf(src_ws)) =>
                IF \A c \in MasterSrcCols :
                       PyStr(tgt_ws0[i][c]) = PyStr(MasterSourceRecord(k)[c])
                THEN /\ i + 1 \notin MasterWrittenRows
                     /\ \A j \in 1..Len(updates) : updates[j][1] # i + 1
                ELSE /\ \A c \in MasterSrcCols :
                           tgt_ws[i][c] = MasterSourceRecord(k)[c]
                     /\ Cardinality({j \in 1..Len(updates) :
                                        updates[j][1] = i + 1}) = 1

\* C6: the second run of main on an unchanged source clears, updates and
\* inserts nothing and leaves the target as the first run left it.
C6_SecondRunChangesNothing ==
    (pc = "m_done" /\ run = 2) =>
        /\ clears = <<>>
        /\ updates = <<>>
        /\ m_inserted = 0
        /\ tgt_ws = tgt_ws0

\* C7: every inserted record went to a row whose synchronised columns were all
\* empty when it was written, and after the run every source key has a row.
C7_InsertOnlyIntoEmptyRows ==
    pc = "m_done" =>
        /\ \A j \in 1..Len(insert_log) : row_is_empty(insert_log[j].before)
        /\ \A k \in MasterKeysOf(src_ws) :
              \E i \in 1..Len(tgt_ws) : MasterKey(tgt_ws[i]) = k

\* C9: a row whose agent-ID cell is empty or whitespace only has no key: it is
\* in neither map and is never matched, updated, cleared or inserted.
C9_BlankKeyIsNoKey ==
    pc \in {"m_scanned", "m_done"} =>
        /\ \A k \in DictKeys(source_map) \cup DictKeys(existing_agent_rows) :
              Strip(k) # <<>>
        /\ \A j \in 1..Len(insert_log) : Strip(insert_log[j].agent) # <<>>

-----------------------------------------------------------------------------
(* Properties of sync_source_to_target.                                    *)

ExportKey(row) == CellText(row[KEY_COLUMN_EXPORT])

\* the data range of the target as loaded: rows 2..last row holding a key
ExportInRange0(i) ==
    \E j \in i..Len(ws_tgt0) : ExportKey(ws_tgt0[j]) # <<>>

-----------------------------------------------------------------------------
(* Properties of sync_bd_to_target.                                        *)

TerminalsProtectedCols ==
    {COL_CERT_MTS, COL_COMMENTS_MTS, COL_COMMENTS_STOLOTO, COL_BD_COMMENTS}

\* C4: on a target row whose agent key matches a BD row, the cells of the
\* columns "Dobavlen sertifikat (MTS)", "Kommentarii (MTS)",
\* "Kommentarii (Stoloto)" and "Kommentarii" are unchanged by the sync.
C4_MatchedRowKeepsForeignColumns ==
    pc = "t_done" =>
        /\ Len(t_ws_tgt) >= Len(t_ws_tgt0)
        /\ \A i \in 1..Len(t_ws_tgt0) :
              (RowKey(t_ws_tgt0[i]) # <<>>
                   /\ RowKey(t_ws_tgt0[i]) \in KeysOf(t_ws_bd)) =>
                  \A c \in TerminalsProtectedCols :
                      t_ws_tgt[i][c] = t_ws_tgt0[i][c]

\* a matched row holding foreign values had a base column and the certificate
\* flag rewritten
C4_Witness ==
    /\ pc = "t_done"
    /\ t_updated >= 1
    /\ \E i \in 1..Len(t_ws_tgt0) :
          /\ RowKey(t_ws_tgt0[i]) \in KeysOf(t_ws_bd)
          /\ \A c \in TerminalsProtectedCols : t_ws_tgt0[i][c] # None
          /\ t_ws_tgt[i][COL_UL] # t_ws_tgt0[i][COL_UL]
          /\ t_ws_tgt[i][COL_CERT] # t_ws_tgt0[i][COL_CERT]

-----------------------------------------------------------------------------
(* Duplicate source keys in the three reconciliation variants.             *)

ExportRowsWithKey(ws, k) == {i \in 1..Len(ws) : ExportKey(ws[i]) = k}

ExportKeysOf(ws) == {ExportKey(ws[i]) : i \in 1..Len(ws)} \ {<<>>}

\* the payload read from source row i of sync_source_to_target
ExportPayloadOf(i) ==
    [c \in Range(ExportColumns) |->
        IF c \in ExportSrcHeader THEN CellText(ws_src[i][c]) ELSE <<>>]

\* the nine values sync_bd_to_target takes from BD row i
TerminalsPayloadOf(i) ==
    [c \in Range(TerminalsMatchedCols) |->
        CASE c = COL_AGENT -> Str(RowKey(t_ws_bd[i]))
          [] c = COL_CERT ->
                 Num(IF COL_BD_COMMENTS \in t_bd_map
                     THEN cert_value_from_bd_comment(t_ws_bd[i][COL_BD_COMMENTS])
                     ELSE 1)
          [] c = COL_MTS ->
                 Str(IF COL_MTS \in t_bd_map
                     THEN normalize_mts_id(t_ws_bd[i][COL_MTS])
                     ELSE IF COL_MTS_ALT \in t_bd_map
                          THEN normalize_mts_id(t_ws_bd[i][COL_MTS_ALT])
                          ELSE <<>>)
          [] OTHER -> Str(IF c \in t_bd_map THEN CellText(t_ws_bd[i][c]) ELSE <<>>)]

-----------------------------------------------------------------------------
(* Boolean columns after sync_source_to_target.                            *)

\* the sheet rows sync_source_to_target wrote source values into
ExportWrittenRows ==
    {DictGet(tgt_row_by_key, k) : k \in DictKeys(src_data) \cap DictKeys(tgt_row_by_key)}
        \cup ((x_append_row - x_inserted)..(x_append_row - 1))

\* C12: when sync_source_to_target returns, every boolean cell of a row it
\* matched or inserted holds the integer 0 or 1 or is empty; source text that
\* is not a recognised boolean is not left there.
C12_BooleanCellsAre01 ==
    pc = "x_done" =>
        \A r \in ExportWrittenRows : \A c \in Range(SVOD_BOOL_COLS) :
            \/ ws_tgt[r - 1][c] \in {Num(0), Num(1)}
            \/ is_empty_cell(ws_tgt[r - 1][c])

-----------------------------------------------------------------------------
(* Header checks of sync_inside_workbook.                                  *)

\* C13: when a required column is missing from the BD header or from the
\* SVOD header, sync_inside_workbook raises before any cell of either sheet
\* has been modified; in particular no header has been added.
C13_RaisesBeforeAnyWrite ==
    pc = "h_raised" => hdr_svod = hdr_svod0

-----------------------------------------------------------------------------
(* sync_xlsx.main and disk_upload.                                         *)

\* C14: whatever the flags RUN_INSIDE_SOURCE and RUN_SYNC_TO_TARGET, a run of
\* sync_xlsx.main that ends with a fatal error has uploaded no workbook.
C14_FatalRunUploadsNothing ==
    pc = "main_failed" => uploaded = <<>>

\* disk_upload has ended
UploadEnded == up_outcome # ""

\* C15: disk_upload makes at most retries PUT attempts; it returns normally
\* exactly when some attempt got a status below 400; when all retries
\* attempts got 423 it raises the "file is LOCKED too long" error (with
\* retries = 0 no attempt is made, and the request for the upload link can
\* fail first).
C15_UploadBoundedRetries ==
    (up_path # "") =>
        /\ Len(up_statuses) <= up_retries
        /\ UploadEnded =>
              /\ (up_outcome = "returned")
                     <=> (\E i \in 1..Len(up_statuses) : up_statuses[i] < 400)
              /\ (Len(up_statuses) = up_retries
                     /\ \A i \in 1..Len(up_statuses) : up_statuses[i] = 423)
                     => up_outcome \in {ERR_LOCKED, ERR_UPLOAD_HREF}

\* every one of the retries attempts was answered 423 and disk_upload raised
C15_Witness ==
    /\ pc = "u_end"
    /\ up_retries = MaxRetries
    /\ Len(up_statuses) = up_retries
    /\ \A i \in 1..Len(up_statuses) : up_statuses[i] = 423
    /\ up_outcome = ERR_LOCKED

-----------------------------------------------------------------------------
(* The pure helpers.                                                       *)

Called(name) == pc = "p_done" /\ fn = name

\* the digits of str(v), in order
DigitsOf(v) == IF v.t = "none" THEN <<>> ELSE SelectSeq(PyStr(v), IsDigit)

\* C16: normalize_mts_id returns the digits of its input, left-padded with
\* zeros to width 9 when there are 1..9 of them, as they are when there are
\* more than 9, and "" when the input is None, blank or holds no digit;
\* '123' -> '000000123', '1234567890' -> '1234567890', '' -> ''.
C16_NormalizeMtsId ==
    Called("normalize_mts_id") =>
        LET d == DigitsOf(arg)
            n == Len(d)
        IN  /\ n = 0 => res = <<>>
            /\ n \in 1..9 =>
                   /\ Len(res) = 9
                   /\ \A i \in 1..9 :
                          res[i] = IF i <= 9 - n THEN "0" ELSE d[i - (9 - n)]
            /\ n > 9 => res = d
            /\ arg = Str(TEXT_123) =>
                   res = <<"0", "0", "0", "0", "0", "0", "1", "2", "3">>
            /\ arg = Str(TEXT_1234567890) => res = TEXT_1234567890
            /\ arg \in {Str(<<>>), None} => res = <<>>

\* a text with a non-digit and fewer than nine digits was normalised
C16_Witness ==
    /\ Called("normalize_mts_id")
    /\ arg.t = "str"
    /\ \E i \in 1..Len(arg.s) : ~IsDigit(arg.s[i])
    /\ Len(DigitsOf(arg)) \in 2..8
    /\ Len(res) = 9

\* C17: normalize_bool_to_01 returns 1, 0 or None; a boolean gives 1/0, the
\* numbers 1 and 0 give 1/0, a text gives 1 or 0 when, trimmed and in lower
\* case, it is one of the true texts or one of the false texts; None, blank
\* text, any other text and any other number give None.
C17_NormalizeBool ==
    Called("normalize_bool_to_01") =>
        /\ res \in {None, Num(0), Num(1)}
        /\ arg.t = "none" => res = None
        /\ arg.t = "bool" => res = Num(arg.n)
        /\ arg.t = "int" => res = IF arg.n \in {0, 1} THEN Num(arg.n) ELSE None
        /\ arg.t = "str" =>
               LET s == Lower(Strip(arg.s))
               IN  res = IF s \in TRUE_TEXTS THEN Num(1)
                         ELSE IF s \in FALSE_TEXTS THEN Num(0)
                         ELSE None

\* a text that is not blank and not recognised gave None
C17_Witness ==
    /\ Called("normalize_bool_to_01")
    /\ arg.t = "str"
    /\ Strip(arg.s) # <<>>
    /\ Lower(Strip(arg.s)) \notin TRUE_TEXTS \cup FALSE_TEXTS
    /\ res = None

\* C18: cert_value_from_bd_comment returns 1 exactly when the comment is
\* None, blank after trimming, or equal after trim and lower case to the
\* exception phrase, and 0 for every other comment, also for one that only
\* contains the phrase.
C18_CertValue ==
    Called("cert_value_from_bd_comment") =>
        /\ res \in {0, 1}
        /\ res = 1 <=>
               \/ arg.t = "none"
               \/ Strip(PyStr(arg)) = <<>>
               \/ Lower(Strip(PyStr(arg))) = CERT_OK_PHRASE

\* a comment that begins with the phrase and goes on gave 0
C18_Witness ==
    /\ Called("cert_value_from_bd_comment")
    /\ arg.t = "str"
    /\ Len(arg.s) > Len(CERT_OK_PHRASE)
    /\ SubSeq(arg.s, 1, Len(CERT_OK_PHRASE)) = CERT_OK_PHRASE
    /\ res = 0

\* C19: compress_ranges returns pairs (low, high) with low <= high, each next
\* low at least the previous high + 2, whose union is exactly the set of the
\* input integers; the empty list gives the empty sequence; the result
\* depends neither on the order nor on the multiplicity of the input.
C19_CompressRanges ==
    Called("compress_ranges") =>
        /\ arg = <<>> => res = <<>>
        /\ \A i \in 1..Len(res) : res[i][1] <= res[i][2]
        /\ \A i \in 1..(Len(res) - 1) : res[i + 1][1] >= res[i][2] + 2
        /\ UNION {res[i][1]..res[i][2] : i \in 1..Len(res)} = Range(arg)
        /\ res = compress_ranges(SortedSeq(Range(arg)))
        /\ res = compress_ranges(Reverse(arg) \o arg)

\* an unsorted list with a repeated number gave several ranges, one of them
\* longer than a single number
C19_Witness ==
    /\ Called("compress_ranges")
    /\ \E i, j \in 1..Len(arg) : i < j /\ arg[i] > arg[j]
    /\ \E i, j \in 1..Len(arg) : i < j /\ arg[i] = arg[j]
    /\ Len(res) >= 2
    /\ \E i \in 1..Len(res) : res[i][1] < res[i][2]

\* the text of ranges i..Len(ranges), built from the last range backwards
RECURSIVE Rendered(_, _)
Rendered(ranges, i) ==
    IF i > Len(ranges) THEN <<>>
    ELSE LET lo == IntToStr(ranges[i][1])
             hi == IntToStr(ranges[i][2])
             part == IF ranges[i][1] = ranges[i][2] THEN <<"(">> \o lo \o <<")">>
                     ELSE <<"(">> \o lo \o <<EN_DASH>> \o hi \o <<")">>
         IN  IF i = Len(ranges) THEN part
             ELSE part \o <<" ">> \o Rendered(ranges, i + 1)

\* C20: format_ranges renders a range as '(low)' when low = high and as
\* '(low-high)' with an en dash otherwise, joins the parts with one space in
\* the order of its input, and format_ranges(compress_ranges([1,2,3,7,8,15]))
\* is '(1-3) (7-8) (15)' with en dashes.
C20_FormatRanges ==
    Called("format_ranges") =>
        /\ res = Rendered(arg, 1)
        /\ Len(SelectSeq(res, LAMBDA ch : ch = " ")) =
               IF arg = <<>> THEN 0 ELSE Len(arg) - 1
        /\ arg = compress_ranges(EXAMPLE_NUMS) =>
               res = <<"(", "1", EN_DASH, "3", ")", " ",
                       "(", "7", EN_DASH, "8", ")", " ",
                       "(", "1", "5", ")">>

\* the ranges of the example list were rendered
C20_Witness ==
    /\ Called("format_ranges")
    /\ arg = compress_ranges(EXAMPLE_NUMS)
    /\ Len(res) = 16

-----------------------------------------------------------------------------
(* Terminal identifiers in sync_inside_workbook.                           *)

\* a terminal cell that parse_terminal_id gets no integer from
Unparseable(v) == v.t = "none" \/ DigitsOf(v) = <<>>

\* the integers of the terminal cells of the first i BD rows of key k
RECURSIVE TerminalsOf(_, _)
TerminalsOf(k, i) ==
    IF i = 0 THEN <<>>
    ELSE LET before == TerminalsOf(k, i - 1)
             v == ws_bd[i][COL_TERMINAL]
         IN  IF RowKey(ws_bd[i]) = k /\ ~Unparseable(v)
             THEN Append(before, StrToInt(DigitsOf(v)))
             ELSE before

-----------------------------------------------------------------------------
(* The boolean columns of SVOD in sync_inside_workbook.                    *)

\* C22: every SVOD row of an agent that BD has is, after the run, either a
\* row the agent held before the run, at the position the deletions above it
\* leave it, with each boolean cell normalised to 0/1 (and kept as it was when
\* it is empty or not recognised), or a row inserted for the agent, with the
\* three booleans 0; no row carries the flags of a row of another agent.
C22_FlagsStayWithAgent ==
    pc = "done" =>
        /\ \A i \in 1..Len(SvodSurvivors) :
              RowKey(SvodSurvivors[i]) # <<>> =>
                  /\ i <= Len(ws_svod)
                  /\ RowKey(ws_svod[i]) = RowKey(SvodSurvivors[i])
                  /\ \A c \in Range(SVOD_BOOL_COLS) :
                        ws_svod[i][c] = NormalizeCell(SvodSurvivors[i][c])
        /\ \A i \in 1..Len(ws_svod) :
              RowKey(ws_svod[i]) # <<>> =>
                  \/ /\ i <= Len(SvodSurvivors)
                     /\ RowKey(SvodSurvivors[i]) = RowKey(ws_svod[i])
                  \/ \A c \in Range(SVOD_BOOL_COLS) : ws_svod[i][c] = Num(0)

\* a row above two agents' rows was deleted; one of the rows held a flag that
\* normalises to another value, the other one a flag that is not recognised
C22_Witness ==
    /\ pc = "done"
    /\ deleted >= 1
    /\ \E i \in 1..Len(svod0), j \in 1..Len(ws_svod) :
          /\ j < i
          /\ RowKey(svod0[i]) \in KeysOf(ws_bd)
          /\ RowKey(ws_svod[j]) = RowKey(svod0[i])
          /\ \E c \in Range(SVOD_BOOL_COLS) :
                svod0[i][c] # ws_svod[j][c] /\ ws_svod[j][c] = NormalizeCell(svod0[i][c])
    /\ \E i \in 1..Len(svod0), j \in 1..Len(ws_svod) :
          /\ j < i
          /\ RowKey(svod0[i]) \in KeysOf(ws_bd)
          /\ RowKey(ws_svod[j]) = RowKey(svod0[i])
          /\ \E c \in Range(SVOD_BOOL_COLS) :
                /\ ~is_empty_cell(svod0[i][c])
                /\ normalize_bool_to_01(svod0[i][c]).t = "none"
                /\ ws_svod[j][c] = svod0[i][c]

-----------------------------------------------------------------------------
(* The terminal column of SVOD in sync_inside_workbook.                    *)

\* the terminal cell the agent k is to end with: the formatted ranges of its
\* parsed terminals, or the first non-empty raw terminal text when none parses
ExpectedTerminal(k) ==
    LET T == TerminalsOf(k, Len(ws_bd))
    IN  IF T # <<>> THEN Str(format_ranges(compress_ranges(T)))
        ELSE Str(FirstBdValue(k, COL_TERMINAL))

\* C23: after sync_inside_workbook, the terminal cell of every SVOD row of an
\* agent of BD holds format_ranges(compress_ranges(T)) for the integers T
\* parsed from the BD rows of the agent, or, when none parses, the first
\* non-empty raw terminal text of the agent (or the empty text).
C23_TerminalCell ==
    pc = "done" =>
        \A k \in KeysOf(ws_bd) :
            \A i \in RowsWithKey(ws_svod, k) :
                ws_svod[i][COL_TERMINAL] = ExpectedTerminal(k)

-----------------------------------------------------------------------------
(* The two implementations of normalize_mts_id.                            *)

\* C24: for every value, sync_master.normalize_mts_id returns what the
\* normalize_mts_id of sync_bd_source_to_target_terminals returns: the digits
\* alone when more than nine are left, "" when none is left.
C24_NormalizeMtsIdAgree ==
    Called("sync_master.normalize_mts_id") => res = normalize_mts_id(arg)

-----------------------------------------------------------------------------
(* sync_master.main: rows whose key left the source.                       *)

\* the rows that main inserted a record into
MasterInsertedRows == {insert_log[j].r : j \in 1..Len(insert_log)}

\* C25: every target row whose key is absent from the source is cleared: its
\* six synchronised cells are emptied (and stay empty unless a record is then
\* inserted there); its other cells, and all cells of the rows that are not
\* cleared, updated or inserted, are as before, and no row is removed or moved.
C25_ClearPolicy ==
    pc = "m_done" =>
        /\ Len(tgt_ws) >= Len(tgt_ws0)
        /\ \A i \in 1..Len(tgt_ws0) :
              LET k == MasterKey(tgt_ws0[i]) IN
              /\ (k # <<>> /\ k \notin MasterKeysOf(src_ws)) =>
                     /\ i + 1 \in Range(clears)
                     /\ i + 1 \notin MasterInsertedRows =>
                            \A c \in MasterSrcCols : tgt_ws[i][c] = None
              /\ \A c \in MasterTgtCols \ MasterSrcCols : tgt_ws[i][c] = tgt_ws0[i][c]
              /\ i + 1 \notin MasterWrittenRows => tgt_ws[i] = tgt_ws0[i]


\* C26: a source-only record is never inserted into a row whose other columns
\* still hold values (a row cleared earlier in the run, a keyless row with a
\* flag): an inserted agent's row has nothing in the columns that main does
\* not synchronise.
C26_InsertedRowInheritsNothing ==
    pc = "m_done" =>
        \A j \in 1..Len(insert_log) :
            LET r == insert_log[j].r IN
            /\ r \notin Range(clears)
            /\ r - 1 <= Len(tgt_ws0) =>
                   \A c \in MasterTgtCols \ MasterSrcCols :
                       tgt_ws0[r - 1][c].t = "none" \/ PyStr(tgt_ws0[r - 1][c]) = <<>>

-----------------------------------------------------------------------------
(* disk_upload: the waits between attempts and the statuses retried.       *)

\* C27: the wait after the n-th attempt, answered 423, is min(2^n, 30)
\* seconds: the waits of a call are 2, 4, 8, 16 and then 30 each, they never
\* decrease and never exceed 30; the default 8 attempts, all answered 423,
\* wait 2, 4, 8, 16, 30, 30, 30, 30.
C27_BackoffSchedule ==
    (up_path # "") =>
        /\ Len(up_waits) = Cardinality({i \in 1..Len(up_statuses) : up_statuses[i] = 423})
        /\ \A n \in 1..Len(up_waits) :
              /\ up_statuses[n] = 423
              /\ up_waits[n] = (IF n <= 4 THEN 2 ^ n ELSE 30)
              /\ up_waits[n] <= 30
              /\ n > 1 => up_waits[n - 1] <= up_waits[n]
        /\ Len(up_waits) = DEFAULT_RETRIES =>
              up_waits = <<2, 4, 8, 16, 30, 30, 30, 30>>

\* the default 8 attempts were all answered 423
C27_Witness ==
    /\ up_retries = DEFAULT_RETRIES
    /\ Len(up_statuses) = DEFAULT_RETRIES
    /\ up_waits = <<2, 4, 8, 16, 30, 30, 30, 30>>
    /\ up_outcome = ERR_LOCKED

\* C28: a PUT answered with a status of 400 or more other than 423 ends the
\* call with the upload error at once: it is the last PUT and no wait follows
\* it; every PUT followed by another one was answered 423; a failed request
\* for the upload link ends the call before any PUT or wait.
C28_OnlyLockedIsRetried ==
    (up_path # "") =>
        /\ \A i \in 1..Len(up_statuses) :
              /\ (up_statuses[i] >= 400 /\ up_statuses[i] # 423) =>
                     /\ i = Len(up_statuses)
                     /\ up_outcome = ERR_UPLOAD
                     /\ Len(up_waits) = i - 1
              /\ i < Len(up_statuses) => up_statuses[i] = 423
        /\ up_outcome = ERR_UPLOAD_HREF => (up_statuses = <<>> /\ up_waits = <<>>)

\* a second PUT was answered 503 after a 423, and the call raised
C28_Witness ==
    /\ up_outcome = ERR_UPLOAD
    /\ Len(up_statuses) >= 2
    /\ up_statuses[1] = 423
    /\ up_statuses[Len(up_statuses)] = 503
    /\ Len(up_waits) = Len(up_statuses) - 1

-----------------------------------------------------------------------------
(* sync_mts_target_to_source.py: sync_target_to_source copies one flag     *)
(* column from the TARGET sheet back to the SOURCE sheet.                  *)

KEY_COL == COL_UL

COL_NAME == COL_CERT_MTS

\* the columns of the two sheets in the model
FlagCols == {COL_UL, COL_CERT, COL_CERT_MTS, COL_TICKETS}

is_empty(v) == v.t = "none" \/ (v.t = "str" /\ Strip(v.s) = <<>>)

\* only the first value of a key is kept
BackRecordFirstWins(d, k, norm) == IF DictHas(d, k) THEN d ELSE DictSet(d, k, norm)

\* data[str(key).strip()] = norm
BackRecord(d, k, norm) == DictSet(d, k, norm)

\* lines 206-218: the dictionary data, from the TARGET rows 2..tgt_last
RECURSIVE BackReadTarget(_, _, _, _)
BackReadTarget(d, ws, r, last) ==
    IF r > last THEN d
    ELSE LET key == Cell(ws, r, KEY_COL)
             norm == normalize_bool_to_01(Cell(ws, r, COL_NAME))
         IN  BackReadTarget(
                 IF is_empty(key) \/ norm.t = "none" THEN d
                 ELSE BackRecord(d, Strip(PyStr(key)), norm),
                 ws, r + 1, last)

\* lines 221-231: the SOURCE rows 2..src_last that data has the key of
RECURSIVE BackApplyFrom(_, _, _, _)
BackApplyFrom(st, r, src_last, d) ==
    IF r > src_last THEN st
    ELSE LET key == Cell(st.ws, r, KEY_COL)
             k == Strip(PyStr(key))
         IN  BackApplyFrom(
                 IF is_empty(key) \/ ~DictHas(d, k) THEN st
                 ELSE [ws |-> SetCell(st.ws, r, COL_NAME, DictGet(d, k), FlagCols),
                       updated |-> st.updated + 1],
                 r + 1, src_last, d)

MaxBackSrcRows == 2
MaxBackTgtRows == 2

FlagRow(ul, cert, cert_mts, tickets) ==
    [c \in FlagCols |->
        CASE c = COL_UL -> ul
          [] c = COL_CERT -> cert
          [] c = COL_CERT_MTS -> cert_mts
          [] c = COL_TICKETS -> tickets]

TEXT_DA == <<" ", "RU_D", "ru_a">>

BackSrcRows ==
    { FlagRow(Str(<<"a">>), Num(1), Str(<<"x">>), Num(0)),
      FlagRow(Str(<<"a", " ">>), None, None, Str(<<"x">>)),
      FlagRow(Str(<<"c">>), Num(0), Num(1), None),
      FlagRow(None, Num(1), Num(0), Num(1)) }

BackTgtRows ==
    { FlagRow(Str(<<"a">>), Num(0), Num(1), None),
      FlagRow(Str(<<" ", "a">>), None, Num(0), Num(1)),
      FlagRow(Str(<<"a">>), Num(1), Str(<<"x">>), None),
      FlagRow(Str(<<"a">>), Num(1), None, Num(0)),
      FlagRow(None, None, Num(1), None),
      FlagRow(Str(<<"c">>), None, Str(TEXT_DA), None) }

InitBack ==
    /\ pc = "b_read"
    /\ IdleInside
    /\ IdleMaster
    /\ IdleExport
    /\ IdleTerminals
    /\ IdleHeaders
    /\ IdleMain
    /\ IdlePure
    /\ IdleBools
    /\ b_ws_src \in SeqsUpTo(BackSrcRows, MaxBackSrcRows)
    /\ b_ws_tgt \in SeqsUpTo(BackTgtRows, MaxBackTgtRows)
    /\ b_ws_src0 = b_ws_src
    /\ b_data = <<>>
    /\ b_src_last = 1
    /\ b_updated = 0

\* lines 206-218
BackRead ==
    /\ FrameBack
    /\ pc = "b_read"
    /\ b_data' = BackReadTarget(<<>>, b_ws_tgt, 2,
                                get_last_data_row(b_ws_tgt, KEY_COL))
    /\ pc' = "b_apply"
    /\ UNCHANGED <<b_ws_src, b_ws_tgt, b_ws_src0, b_src_last, b_updated>>

\* lines 221-231
BackApply ==
    /\ FrameBack
    /\ pc = "b_apply"
    /\ LET last == get_last_data_row(b_ws_src, KEY_COL)
           st == BackApplyFrom([ws |-> b_ws_src, updated |-> 0], 2, last, b_data)
       IN  /\ b_src_last' = last
           /\ b_ws_src' = st.ws
           /\ b_updated' = st.updated
    /\ pc' = "b_done"
    /\ UNCHANGED <<b_ws_tgt, b_ws_src0, b_data>>

NextBack == BackRead \/ BackApply

SpecBack == InitBack /\ [][NextBack]_vars

\* the trimmed key of a row of one of the two sheets
FlagKey(row) == CellText(row[KEY_COL])

\* the TARGET rows of key k whose flag normalises to 0 or 1
BackRowsWithFlag(k) ==
    {j \in 1..Len(b_ws_tgt) :
        /\ FlagKey(b_ws_tgt[j]) = k
        /\ normalize_bool_to_01(b_ws_tgt[j][COL_NAME]).t # "none"}

\* C29: sync_target_to_source changes a SOURCE cell only in the column
\* 'Dobavlen sertifikat (MTS)' of a row whose trimmed key is the key of a
\* TARGET row with a flag that normalises to 0/1, and sets it to the
\* normalised flag of the last such TARGET row; every other SOURCE cell is as
\* loaded and the SOURCE sheet keeps its rows.
C29_OnlyFlagCellsChange ==
    pc = "b_done" =>
        /\ Len(b_ws_src) = Len(b_ws_src0)
        /\ \A i \in 1..Len(b_ws_src0) : \A c \in FlagCols :
              LET k == FlagKey(b_ws_src0[i])
                  S == BackRowsWithFlag(k)
              IN  IF c = COL_NAME /\ k # <<>> /\ S # {}
                  THEN b_ws_src[i][c] =
                           normalize_bool_to_01(b_ws_tgt[MaxOf(S)][COL_NAME])
                  ELSE b_ws_src[i][c] = b_ws_src0[i][c]

\* two TARGET rows of one key held different flags and a SOURCE row of the
\* key was given the flag of the second
C29_Witness ==
    /\ pc = "b_done"
    /\ \E i \in 1..Len(b_ws_src0) :
          LET S == BackRowsWithFlag(FlagKey(b_ws_src0[i])) IN
          /\ Cardinality(S) = 2
          /\ normalize_bool_to_01(b_ws_tgt[1][COL_NAME])
                 # normalize_bool_to_01(b_ws_tgt[2][COL_NAME])
          /\ b_ws_src[i][COL_NAME] # b_ws_src0[i][COL_NAME]
          /\ b_ws_src[i][COL_NAME] = normalize_bool_to_01(b_ws_tgt[2][COL_NAME])

-----------------------------------------------------------------------------
(* sync_bools_source_to_target.py: sync copies two flag columns from the   *)
(* SOURCE sheet to the TARGET sheet.                                       *)

COLS_SYNC == <<COL_CERT, COL_TICKETS>>

COLS_WITH_CF == <<COL_CERT, COL_CERT_MTS, COL_TICKETS>>

\* lines 266-277: src_data, the last row of a key wins
RECURSIVE BoolsReadSource(_, _, _, _)
BoolsReadSource(d, ws, r, last) ==
    IF r > last THEN d
    ELSE LET key == get_cell_str(ws, r, KEY_COL)
             payload == [c \in Range(COLS_SYNC) |->
                            normalize_bool_to_01(Cell(ws, r, c))]
         IN  BoolsReadSource(IF key = <<>> THEN d ELSE DictSet(d, key, payload),
                             ws, r + 1, last)

\* an absent value is written as well
BoolsSkipNever(val) == FALSE

\* lines 298-299: if val is None: continue
BoolsSkip(val) == val.t = "none"

\* lines 294-300: the matched row gets the values that are not None
RECURSIVE BoolsWriteMatched(_, _, _, _)
BoolsWriteMatched(ws, rr, cols, payload) ==
    IF cols = <<>> THEN ws
    ELSE BoolsWriteMatched(
             IF BoolsSkip(payload[cols[1]]) THEN ws
             ELSE SetCell(ws, rr, cols[1], payload[cols[1]], FlagCols),
             rr, Tail(cols), payload)

\* lines 305-308: the new row gets every value, None included
RECURSIVE BoolsWriteInserted(_, _, _, _)
BoolsWriteInserted(ws, rr, cols, payload) ==
    IF cols = <<>> THEN ws
    ELSE BoolsWriteInserted(SetCell(ws, rr, cols[1], payload[cols[1]], FlagCols),
                            rr, Tail(cols), payload)

\* lines 292-309: the body of the upsert loop
BoolsUpsertOne(st, key, payload, by_key) ==
    IF DictHas(by_key, key)
    THEN [st EXCEPT !.ws = BoolsWriteMatched(st.ws, DictGet(by_key, key),
                                             COLS_SYNC, payload),
                    !.updated = st.updated + 1]
    ELSE [st EXCEPT !.ws = BoolsWriteInserted(
                               SetCell(st.ws, st.append_row, KEY_COL, Str(key),
                                       FlagCols),
                               st.append_row, COLS_SYNC, payload),
                    !.append_row = st.append_row + 1,
                    !.inserted = st.inserted + 1]

RECURSIVE BoolsUpsertFrom(_, _, _, _)
BoolsUpsertFrom(st, d, i, by_key) ==
    IF i > Len(d) THEN st
    ELSE BoolsUpsertFrom(BoolsUpsertOne(st, d[i][1], d[i][2], by_key),
                         d, i + 1, by_key)

\* lines 313-327: the three flag columns of rows 2..last, where recognised
BoolsNormalize(ws, last) ==
    [i \in 1..Len(ws) |->
        IF i + 1 <= last
        THEN [c \in DOMAIN ws[i] |->
                 IF c \in Range(COLS_WITH_CF) /\ ~is_empty_cell(ws[i][c])
                    /\ normalize_bool_to_01(ws[i][c]).t # "none"
                 THEN normalize_bool_to_01(ws[i][c])
                 ELSE ws[i][c]]
        ELSE ws[i]]

MaxBoolsSrcRows == 2
MaxBoolsTgtRows == 2

BoolsSrcRows ==
    { FlagRow(Str(<<"a">>), Num(1), Num(0), None),
      FlagRow(Str(<<" ", "a">>), Str(<<"x">>), Num(1), Num(0)),
      FlagRow(Str(<<"b">>), None, None, Str(TEXT_DA)),
      FlagRow(None, Num(1), Num(1), Num(1)) }

BoolsTgtRows ==
    { FlagRow(Str(<<"a">>), Str(TEXT_DA), Str(<<"x">>), Str(TEXT_DA)),
      FlagRow(Str(<<"a">>), None, None, None),
      FlagRow(Str(<<"c">>), Num(0), Str(TEXT_DA), Str(<<"x">>)),
      FlagRow(None, None, Num(1), Str(TEXT_DA)) }

InitBools ==
    /\ pc = "s_read"
    /\ IdleInside
    /\ IdleMaster
    /\ IdleExport
    /\ IdleTerminals
    /\ IdleHeaders
    /\ IdleMain
    /\ IdlePure
    /\ IdleBack
    /\ s_ws_src \in SeqsUpTo(BoolsSrcRows, MaxBoolsSrcRows)
    /\ s_ws_tgt \in SeqsUpTo(BoolsTgtRows, MaxBoolsTgtRows)
    /\ s_ws_tgt0 = s_ws_tgt
    /\ s_src_data = <<>>
    /\ s_tgt_row_by_key = <<>>
    /\ s_tgt_last = 1
    /\ s_append_row = 2
    /\ s_updated = 0
    /\ s_inserted = 0

\* lines 262-290: the data bounds, src_data and tgt_row_by_key
BoolsRead ==
    /\ FrameBools
    /\ pc = "s_read"
    /\ LET last == get_last_data_row(s_ws_tgt, KEY_COL)
       IN  /\ s_tgt_last' = last
           /\ s_tgt_row_by_key' =
                  IF last >= 2 THEN ExistingRows(<<>>, s_ws_tgt, KEY_COL, 2, last)
                  ELSE <<>>
           /\ s_append_row' = IF last >= 2 THEN last + 1 ELSE 2
    /\ s_src_data' = BoolsReadSource(<<>>, s_ws_src, 2,
                                     get_last_data_row(s_ws_src, KEY_COL))
    /\ pc' = "s_upsert"
    /\ UNCHANGED <<s_ws_src, s_ws_tgt, s_ws_tgt0, s_updated, s_inserted>>

\* lines 287-309
BoolsUpsert ==
    /\ FrameBools
    /\ pc = "s_upsert"
    /\ LET st == BoolsUpsertFrom([ws |-> s_ws_tgt, append_row |-> s_append_row,
                                  inserted |-> 0, updated |-> 0],
                                 s_src_data, 1, s_tgt_row_by_key)
       IN  /\ s_ws_tgt' = st.ws
           /\ s_append_row' = st.append_row
           /\ s_inserted' = st.inserted
           /\ s_updated' = st.updated
    /\ pc' = "s_normalize"
    /\ UNCHANGED <<s_ws_src, s_ws_tgt0, s_src_data, s_tgt_row_by_key, s_tgt_last>>

\* lines 311-327
BoolsNormalizeStep ==
    /\ FrameBools
    /\ pc = "s_normalize"
    /\ LET last == get_last_data_row(s_ws_tgt, KEY_COL)
           new_tgt_last == IF last > 2 THEN last ELSE 2
       IN  s_ws_tgt' = BoolsNormalize(s_ws_tgt, new_tgt_last)
    /\ pc' = "s_done"
    /\ UNCHANGED <<s_ws_src, s_ws_tgt0, s_src_data, s_tgt_row_by_key, s_tgt_last,
                   s_append_row, s_updated, s_inserted>>

NextBools == BoolsRead \/ BoolsUpsert \/ BoolsNormalizeStep

SpecBools == InitBools /\ [][NextBools]_vars

\* the keys of a sheet of the flag scripts
FlagKeysOf(ws) == {FlagKey(ws[i]) : i \in 1..Len(ws)} \ {<<>>}

\* the 0/1 value the SOURCE holds for key k and column c: that of the last
\* SOURCE row of k, None when it is empty or not recognised
BoolsSourceValue(k, c) ==
    LET S == {j \in 1..Len(s_ws_src) : FlagKey(s_ws_src[j]) = k}
    IN  normalize_bool_to_01(s_ws_src[MaxOf(S)][c])

\* the row that sync matches with key k: the last TARGET row holding k
BoolsMatchedRow(k) ==
    MaxOf({j \in 1..Len(s_ws_tgt0) : FlagKey(s_ws_tgt0[j]) = k})

\* C30: on the TARGET row matched with a SOURCE key, a synchronised column
\* for which the SOURCE value is empty or not recognised keeps the TARGET's
\* value, up to 0/1 normalisation; 'Dobavlen sertifikat (MTS)' never gets a
\* SOURCE value (a loaded row keeps its own, up to normalisation, a new row
\* has none); an empty TARGET cell of the three flag columns stays empty
\* unless the SOURCE holds a 0/1 value for the key and column of its row.
C30_AbsentSourceValueKeepsTarget ==
    pc = "s_done" =>
        /\ \A k \in FlagKeysOf(s_ws_src) \cap FlagKeysOf(s_ws_tgt0) :
              \A c \in Range(COLS_SYNC) :
                  BoolsSourceValue(k, c) = None =>
                      LET i == BoolsMatchedRow(k) IN
                      /\ FlagKey(s_ws_tgt[i]) = k
                      /\ s_ws_tgt[i][c] = NormalizeCell(s_ws_tgt0[i][c])
        /\ \A i \in 1..Len(s_ws_tgt) :
              IF i <= Len(s_ws_tgt0)
              THEN s_ws_tgt[i][COL_CERT_MTS]
                       \in {s_ws_tgt0[i][COL_CERT_MTS],
                            NormalizeCell(s_ws_tgt0[i][COL_CERT_MTS])}
              ELSE s_ws_tgt[i][COL_CERT_MTS] = None
        /\ \A i \in 1..Len(s_ws_tgt0) : \A c \in Range(COLS_WITH_CF) :
              LET k == FlagKey(s_ws_tgt[i]) IN
              (/\ is_empty_cell(s_ws_tgt0[i][c])
               /\ \/ c = COL_CERT_MTS
                  \/ k \notin FlagKeysOf(s_ws_src)
                  \/ BoolsSourceValue(k, c) = None)
                  => is_empty_cell(s_ws_tgt[i][c])

\* a matched row got one column from the SOURCE and kept, normalised, the one
\* the SOURCE holds nothing for, and its MTS flag stayed
C30_Witness ==
    /\ pc = "s_done"
    /\ s_updated >= 1
    /\ \E k \in FlagKeysOf(s_ws_src) \cap FlagKeysOf(s_ws_tgt0) :
          LET i == BoolsMatchedRow(k) IN
          /\ BoolsSourceValue(k, COL_TICKETS) = None
          /\ s_ws_tgt0[i][COL_TICKETS] = Str(TEXT_DA)
          /\ s_ws_tgt[i][COL_TICKETS] = Num(1)
          /\ BoolsSourceValue(k, COL_CERT) = Num(1)
          /\ s_ws_tgt[i][COL_CERT] = Num(1)
          /\ s_ws_tgt[i][COL_CERT_MTS] = s_ws_tgt0[i][COL_CERT_MTS]
          /\ s_ws_tgt0[i][COL_CERT_MTS] # None

====
